---- MODULE Spec2Model ----
(***************************************************************************)
(* Correlation clustering on signed graphs (python/algorithms/clustering.py) *)
(* as a state machine: the CorrelationClustering object, its mistake        *)
(* evaluator, the two local searches and the LP formulation.                *)
(***************************************************************************)
EXTENDS Integers, Sequences, FiniteSets, TLC

VARIABLES
  graph,   \* the CorrelationClustering object: vertices, positive_edges, negative_edges
  call,    \* one call of a method of the object on a clustering argument
  run,     \* the frame of a local search (locals of greedy_/simple_greedy_clustering)
  lp,      \* a CorrelationClusteringLP object and the result of formulate_lp
  store    \* a container object: a HashTable, a LinearProbingHashTable or a LinkedList

vars == <<graph, call, run, lp, store>>

(***************************************************************************)
(* Bounds of the model.                                                     *)
(***************************************************************************)
MaxId == 2          \* vertex ids range over -1..MaxId
MaxVertices == 3    \* longest vertex list of a generated graph
MaxEdges == 3       \* most edges (positive plus negative) of a generated graph
MaxLabel == 1       \* cluster labels of a clustering argument range over 0..MaxLabel
MaxCallId == 1      \* ids in the graph and clustering of a method call range over -1..MaxCallId
MaxCallEdges == 2   \* most edge tuples (both lists together) of a method call's graph
MaxLPId == 2        \* vertex ids of an LP graph range over 0..MaxLPId
MaxLPEdges == 3     \* most edge tuples (both lists together) of a generated LP graph
MaxInterpretEdges == 1   \* most edge tuples of a graph whose LP solution is interpreted
MaxSolutionEntries == 2  \* most entries of a solution map handed to interpret_solution
MaxSortValue == 1        \* the integers of a list to sort range over -1..MaxSortValue
MaxSortLen == 4          \* longest generated list to sort
MaxKey == 2              \* keys of a HashTable are the ints and digit strings of 1..MaxKey, and 1.0
MaxTableValue == 2       \* values of a HashTable range over 1..MaxTableValue
MaxProbeKey == 2         \* keys of a LinearProbingHashTable range over 1..MaxProbeKey
MaxProbeValue == 1       \* values of a LinearProbingHashTable range over 1..MaxProbeValue
MaxListLen == 3          \* a LinkedList grows to at most MaxListLen nodes
MaxListData == 2         \* the data of a LinkedList node range over 1..MaxListData
MaxVectorLen == 2        \* the size n of a frequency vector ranges over 0..MaxVectorLen
MaxStreamLen == 2        \* a generated stream has at most MaxStreamLen updates, m is 0..MaxStreamLen
MaxDepth == 2            \* a generated tree has at most MaxDepth levels below its root
MaxChildren == 3         \* a node of a generated tree has at most MaxChildren children
MaxColor == 2            \* the colours of the leaves range over 1..MaxColor, or None
MaxInputLen == 4         \* a generated input string has at most MaxInputLen characters

Ids == (0 - 1)..MaxId
Labels == 0..MaxLabel

Range(s) == {s[k] : k \in DOMAIN s}
Min(a, b) == IF a <= b THEN a ELSE b
Max(a, b) == IF a >= b THEN a ELSE b

(***************************************************************************)
(* Python text: str(int), str.split, int(str).  A text is a sequence of     *)
(* one-character strings.                                                   *)
(***************************************************************************)
Digits == <<"0", "1", "2", "3", "4", "5", "6", "7", "8", "9">>

RECURSIVE NatStr(_)
NatStr(n) ==
  IF n < 10 THEN <<Digits[n + 1]>>
  ELSE NatStr(n \div 10) \o <<Digits[(n % 10) + 1]>>

\* str(n) for an int n
IntStr(n) == IF n < 0 THEN <<"-">> \o NatStr(0 - n) ELSE NatStr(n)

\* text.split(sep): the pieces between the occurrences of sep
RECURSIVE split(_, _)
split(text, sep) ==
  IF \A k \in 1..Len(text) : text[k] # sep THEN <<text>>
  ELSE LET k == CHOOSE k \in 1..Len(text) :
                  text[k] = sep /\ \A m \in 1..(k - 1) : text[m] # sep
       IN <<SubSeq(text, 1, k - 1)>> \o split(SubSeq(text, k + 1, Len(text)), sep)

IsDigit(c) == \E d \in 1..10 : Digits[d] = c
DigitValue(c) == (CHOOSE d \in 1..10 : Digits[d] = c) - 1

\* int(text) raises ValueError unless text is an optional sign and one or more digits
IsIntLiteral(text) ==
  LET body == IF text # <<>> /\ text[1] = "-" THEN Tail(text) ELSE text
  IN body # <<>> /\ \A k \in 1..Len(body) : IsDigit(body[k])

RECURSIVE NatValue(_)
NatValue(text) ==
  IF text = <<>> THEN 0
  ELSE NatValue(SubSeq(text, 1, Len(text) - 1)) * 10 + DigitValue(text[Len(text)])

IntValue(text) ==
  IF text[1] = "-" THEN 0 - NatValue(Tail(text)) ELSE NatValue(text)

(***************************************************************************)
(* CorrelationClustering: construction and edge keys.                       *)
(***************************************************************************)
\* variant of edge_key: the key keeps the order in which the tuple was listed
edge_key_as_listed(u, v) == IntStr(u) \o <<"-">> \o IntStr(v)

\* _edge_key(u, v): f"{min(u, v)}-{max(u, v)}"
edge_key(u, v) == IntStr(Min(u, v)) \o <<"-">> \o IntStr(Max(u, v))

\* __init__: the vertex list as given, the edge lists as sets of edge keys
CorrelationClustering(vertices, positive_edges, negative_edges) ==
  [vertices |-> vertices,
   positive_edges |-> {edge_key(positive_edges[k][1], positive_edges[k][2]) :
                         k \in DOMAIN positive_edges},
   negative_edges |-> {edge_key(negative_edges[k][1], negative_edges[k][2]) :
                         k \in DOMAIN negative_edges}]

\* u, v = map(int, edge_key.split('-')) raises ValueError unless the key splits
\* into exactly two int literals
unpack_raises(key) ==
  LET parts == split(key, "-")
  IN ~(Len(parts) = 2 /\ IsIntLiteral(parts[1]) /\ IsIntLiteral(parts[2]))

unpack(key) ==
  LET parts == split(key, "-") IN <<IntValue(parts[1]), IntValue(parts[2])>>

\* dict.get(key): the value, or None; None is modelled as the empty set and a
\* value x as {x}, so that None equals None and differs from every value
get(clustering, vertex) ==
  IF vertex \in DOMAIN clustering THEN {clustering[vertex]} ELSE {}

\* calculate_mistakes raises ValueError when a key of either edge set fails to unpack
calculate_mistakes_raises(self) ==
  \E key \in self.positive_edges \cup self.negative_edges : unpack_raises(key)

\* a slip in the negative-edge test: != where the code has ==
calculate_mistakes_negative_differ(self, clustering) ==
  Cardinality({key \in self.positive_edges :
                 get(clustering, unpack(key)[1]) # get(clustering, unpack(key)[2])})
  + Cardinality({key \in self.negative_edges :
                 get(clustering, unpack(key)[1]) # get(clustering, unpack(key)[2])})

\* a slip: a key of both sets is counted as a positive edge only
calculate_mistakes_positive_wins(self, clustering) ==
  Cardinality({key \in self.positive_edges :
                 get(clustering, unpack(key)[1]) # get(clustering, unpack(key)[2])})
  + Cardinality({key \in self.negative_edges \ self.positive_edges :
                 get(clustering, unpack(key)[1]) = get(clustering, unpack(key)[2])})

\* calculate_mistakes(clustering): one mistake per positive key whose endpoints'
\* labels differ, one per negative key whose endpoints' labels are equal
calculate_mistakes(self, clustering) ==
  Cardinality({key \in self.positive_edges :
                 get(clustering, unpack(key)[1]) # get(clustering, unpack(key)[2])})
  + Cardinality({key \in self.negative_edges :
                 get(clustering, unpack(key)[1]) = get(clustering, unpack(key)[2])})

\* a slip: len(clustering.values()), the values not made a set
get_cluster_count_of_list(clustering) == Cardinality(DOMAIN clustering)

\* _get_cluster_count(clustering): len(set(clustering.values()))
get_cluster_count(clustering) ==
  Cardinality({clustering[v] : v \in DOMAIN clustering})

\* _clone_clustering(clustering): clustering.copy()
clone_clustering(clustering) == [v \in DOMAIN clustering |-> clustering[v]]

\* a slip in the comparison: every vertex has a key, extra keys tolerated
validate_clustering_subset(self, clustering) ==
  Range(self.vertices) \subseteq DOMAIN clustering

\* validate_clustering(clustering): set(self.vertices) == set(clustering.keys())
validate_clustering(self, clustering) ==
  Range(self.vertices) = DOMAIN clustering

(***************************************************************************)
(* Inputs.                                                                  *)
(***************************************************************************)
\* the vertex lists over the ids of S, at most n long: no id twice, listed in
\* ascending or in descending order
VertexLists(S, n) ==
  UNION {{s \in [1..m -> S] : \/ \A a, b \in 1..m : a < b => s[a] < s[b]
                              \/ \A a, b \in 1..m : a < b => s[a] > s[b]} : m \in 0..n}

\* the lists of (u, v) tuples over the ids of S, at most n long
EdgeLists(S, n) == UNION {[1..m -> S \X S] : m \in 0..n}

\* the dicts from some ids of S to labels
Clusterings(S) == UNION {[K -> Labels] : K \in SUBSET S}

\* test_suite.py / spec section 8: the mistake-count example
ExampleVertices == <<1, 2, 3>>
ExamplePositive == <<<<1, 2>>, <<2, 3>>>>
ExampleNegative == <<<<1, 3>>>>
ExampleGraph == CorrelationClustering(ExampleVertices, ExamplePositive, ExampleNegative)

CallIds == (0 - 1)..MaxCallId

ExampleArgs ==
  [vertices |-> ExampleVertices, positive_edges |-> ExamplePositive,
   negative_edges |-> ExampleNegative]

\* the constructor arguments of the method-call specification
CallArgs(ids) ==
  {a \in [vertices : VertexLists(ids, MaxCallId + 2),
          positive_edges : EdgeLists(ids, MaxCallEdges),
          negative_edges : EdgeLists(ids, MaxCallEdges)] :
     Len(a.positive_edges) + Len(a.negative_edges) <= MaxCallEdges}
  \cup {ExampleArgs}

(***************************************************************************)
(* Method calls on a constructed graph: calculate_mistakes and              *)
(* validate_clustering applied to a clustering argument, get_graph_stats.   *)
(***************************************************************************)
\* get_graph_stats
get_graph_stats(self) ==
  [vertex_count |-> Len(self.vertices),
   positive_edge_count |-> Cardinality(self.positive_edges),
   negative_edge_count |-> Cardinality(self.negative_edges),
   total_edge_count |-> Cardinality(self.positive_edges) + Cardinality(self.negative_edges)]

Idle == [pc |-> "idle"]

InitCall ==
  /\ \E a \in CallArgs(CallIds) :
       /\ graph = CorrelationClustering(a.vertices, a.positive_edges, a.negative_edges)
       /\ \E c \in Clusterings(CallIds \cup Range(a.vertices)) :
            call = [pc |-> "ready", op |-> "none", args |-> a,
                    clustering |-> c, result |-> 0]
  /\ run = Idle
  /\ lp = Idle
  /\ store = Idle

\* cc.calculate_mistakes(clustering)
CallCalculateMistakes ==
  /\ call.pc = "ready"
  /\ call' = IF calculate_mistakes_raises(graph)
             THEN [call EXCEPT !.pc = "raised", !.op = "calculate_mistakes",
                               !.result = "ValueError"]
             ELSE [call EXCEPT !.pc = "returned", !.op = "calculate_mistakes",
                               !.result = calculate_mistakes(graph, call.clustering)]
  /\ UNCHANGED <<graph, run, lp, store>>

\* cc.validate_clustering(clustering)
CallValidateClustering ==
  /\ call.pc = "ready"
  /\ call' = [call EXCEPT !.pc = "returned", !.op = "validate_clustering",
                          !.result = validate_clustering(graph, call.clustering)]
  /\ UNCHANGED <<graph, run, lp, store>>

\* cc.get_graph_stats()
CallGetGraphStats ==
  /\ call.pc = "ready"
  /\ call' = [call EXCEPT !.pc = "returned", !.op = "get_graph_stats",
                          !.result = get_graph_stats(graph)]
  /\ UNCHANGED <<graph, run, lp, store>>

NextCall == CallCalculateMistakes \/ CallValidateClustering \/ CallGetGraphStats

SpecCall == InitCall /\ [][NextCall]_vars

(***************************************************************************)
(* The local searches.  A search is a frame of locals and a position pc:    *)
(*   "ready"     before the call                                            *)
(*   "while"     at the loop test of the outer while                        *)
(*   "pair"      at the head of the inner for body (simple_greedy only)     *)
(*   "candidate" about to build and evaluate a candidate                    *)
(*   "decide"    at the comparison of test_mistakes with min_mistakes       *)
(*   "done"      returned a Clustering;  "raised"  ended by ValueError      *)
(* Loop indices i, j are those of the source (from 0); u, v are positions   *)
(* (from 1) of the loop variables u, v in self.vertices.                    *)
(***************************************************************************)
\* the Clustering dataclass
Clustering(clustering, mistakes, cluster_count) ==
  [clustering |-> clustering, mistakes |-> mistakes, cluster_count |-> cluster_count]

\* a slip: the comprehension runs over self.vertices[1:]
singleton_clustering_skips_first(self) ==
  [vertex \in Range(SubSeq(self.vertices, 2, Len(self.vertices))) |-> vertex]

\* {vertex: vertex for vertex in self.vertices}
singleton_clustering(self) == [vertex \in Range(self.vertices) |-> vertex]

\* a slip: the test on the label is lost and every vertex is relabelled cluster_b
move_cluster_every_vertex(test_clustering, cluster_a, cluster_b) ==
  [vertex \in DOMAIN test_clustering |-> cluster_b]

\* every vertex labelled cluster_a is relabelled cluster_b
move_cluster(test_clustering, cluster_a, cluster_b) ==
  [vertex \in DOMAIN test_clustering |->
     IF test_clustering[vertex] = cluster_a THEN cluster_b ELSE test_clustering[vertex]]

\* list(set(clustering.values())): the distinct labels, in an order the set decides
label_lists(clustering) ==
  LET labels == {clustering[v] : v \in DOMAIN clustering}
  IN {s \in [1..Cardinality(labels) -> labels] :
        \A a, b \in DOMAIN s : a # b => s[a] # s[b]}

Frame ==
  [pc |-> "ready", algo |-> "none", clustering |-> <<>>, best_clustering |-> <<>>,
   min_mistakes |-> 0, improved |-> FALSE, changed |-> FALSE, iterations |-> 0,
   max_iterations |-> 0, current_clusters |-> <<>>, i |-> 0, j |-> 0, u |-> 0, v |-> 0,
   test_clustering |-> <<>>, test_mistakes |-> 0, result |-> Clustering(<<>>, 0, 0)]

\* greedy_correlation_clustering, lines 83-90
GreedyStart ==
  /\ run.pc = "ready"
  /\ run' = IF calculate_mistakes_raises(graph)
            THEN [run EXCEPT !.pc = "raised", !.algo = "greedy",
                             !.clustering = singleton_clustering(graph),
                             !.best_clustering = clone_clustering(singleton_clustering(graph))]
            ELSE [run EXCEPT !.pc = "while", !.algo = "greedy",
                             !.clustering = singleton_clustering(graph),
                             !.best_clustering = clone_clustering(singleton_clustering(graph)),
                             !.min_mistakes = calculate_mistakes(graph,
                                  clone_clustering(singleton_clustering(graph))),
                             !.improved = TRUE,
                             !.iterations = 0,
                             !.max_iterations = Len(graph.vertices) * Len(graph.vertices)]
  /\ UNCHANGED <<graph, call, lp, store>>

\* the loop test of line 92; on entry lines 93-97 and the first pair of the for
\* loops, on exit the return of line 120
GreedyWhile ==
  /\ run.pc = "while" /\ run.algo = "greedy"
  /\ IF run.improved /\ run.iterations < run.max_iterations
     THEN \E cs \in label_lists(run.clustering) :
            run' = [run EXCEPT !.improved = FALSE,
                               !.iterations = run.iterations + 1,
                               !.current_clusters = cs,
                               !.i = 0, !.j = 1,
                               !.pc = IF Len(cs) >= 2 THEN "candidate" ELSE "while"]
     ELSE run' = [run EXCEPT !.pc = "done",
                             !.result = Clustering(run.best_clustering, run.min_mistakes,
                                                   get_cluster_count(run.best_clustering))]
  /\ UNCHANGED <<graph, call, lp, store>>

\* lines 101-112: the candidate for the pair (i, j) and its mistake count
GreedyCandidate ==
  /\ run.pc = "candidate" /\ run.algo = "greedy"
  /\ LET cluster_a == run.current_clusters[run.i + 1]
         cluster_b == run.current_clusters[run.j + 1]
         test_clustering == move_cluster(clone_clustering(run.clustering),
                                         cluster_a, cluster_b)
     IN run' = IF calculate_mistakes_raises(graph)
               THEN [run EXCEPT !.pc = "raised", !.test_clustering = test_clustering]
               ELSE [run EXCEPT !.pc = "decide", !.test_clustering = test_clustering,
                                !.test_mistakes = calculate_mistakes(graph, test_clustering)]
  /\ UNCHANGED <<graph, call, lp, store>>

\* the next (i, j) of the for loops of lines 99-100, or the end of the round
greedy_advance(frame) ==
  LET n == Len(frame.current_clusters)
  IN IF frame.j + 1 < n THEN [frame EXCEPT !.j = frame.j + 1, !.pc = "candidate"]
     ELSE IF frame.i + 2 < n
          THEN [frame EXCEPT !.i = frame.i + 1, !.j = frame.i + 2, !.pc = "candidate"]
          ELSE [frame EXCEPT !.pc = "while"]

\* a slip: <= where the code has <
greedy_decide_not_strict(frame) ==
  IF frame.test_mistakes <= frame.min_mistakes
  THEN [frame EXCEPT !.min_mistakes = frame.test_mistakes,
                     !.best_clustering = clone_clustering(frame.test_clustering),
                     !.clustering = frame.test_clustering,
                     !.improved = TRUE]
  ELSE frame

\* a slip: the commit does not replace the working clustering
greedy_decide_keeps_working(frame) ==
  IF frame.test_mistakes < frame.min_mistakes
  THEN [frame EXCEPT !.min_mistakes = frame.test_mistakes,
                     !.best_clustering = clone_clustering(frame.test_clustering),
                     !.improved = TRUE]
  ELSE frame

\* lines 114-118
greedy_decide(frame) ==
  IF frame.test_mistakes < frame.min_mistakes
  THEN [frame EXCEPT !.min_mistakes = frame.test_mistakes,
                     !.best_clustering = clone_clustering(frame.test_clustering),
                     !.clustering = frame.test_clustering,
                     !.improved = TRUE]
  ELSE frame

GreedyDecide ==
  /\ run.pc = "decide" /\ run.algo = "greedy"
  /\ run' = greedy_advance(greedy_decide(run))
  /\ UNCHANGED <<graph, call, lp, store>>

\* simple_greedy_clustering, lines 130-135
SimpleStart ==
  /\ run.pc = "ready"
  /\ run' = IF calculate_mistakes_raises(graph)
            THEN [run EXCEPT !.pc = "raised", !.algo = "simple",
                             !.clustering = singleton_clustering(graph),
                             !.best_clustering = clone_clustering(singleton_clustering(graph))]
            ELSE [run EXCEPT !.pc = "while", !.algo = "simple",
                             !.clustering = singleton_clustering(graph),
                             !.best_clustering = clone_clustering(singleton_clustering(graph)),
                             !.min_mistakes = calculate_mistakes(graph,
                                  clone_clustering(singleton_clustering(graph))),
                             !.changed = TRUE]
  /\ UNCHANGED <<graph, call, lp, store>>

\* the loop test of line 136; on entry line 137 and the first (u, v), on exit the
\* return of line 167
SimpleWhile ==
  /\ run.pc = "while" /\ run.algo = "simple"
  /\ run' = IF run.changed
            THEN [run EXCEPT !.changed = FALSE, !.u = 1, !.v = 1,
                             !.pc = IF Len(graph.vertices) >= 1 THEN "pair" ELSE "while"]
            ELSE [run EXCEPT !.pc = "done",
                             !.result = Clustering(run.best_clustering, run.min_mistakes,
                                                   get_cluster_count(run.best_clustering))]
  /\ UNCHANGED <<graph, call, lp, store>>

\* the next (u, v) of the for loops of lines 139-140, or the end of the pass
simple_advance(frame, self) ==
  LET n == Len(self.vertices)
  IN IF frame.v + 1 <= n THEN [frame EXCEPT !.v = frame.v + 1, !.pc = "pair"]
     ELSE IF frame.u + 1 <= n
          THEN [frame EXCEPT !.u = frame.u + 1, !.v = 1, !.pc = "pair"]
          ELSE [frame EXCEPT !.pc = "while"]

\* lines 141-148: the two continue tests
simple_skips(frame, self) ==
  \/ self.vertices[frame.u] = self.vertices[frame.v]
  \/ get(frame.clustering, self.vertices[frame.u])
       = get(frame.clustering, self.vertices[frame.v])

SimplePair ==
  /\ run.pc = "pair" /\ run.algo = "simple"
  /\ run' = IF simple_skips(run, graph)
            THEN simple_advance(run, graph)
            ELSE [run EXCEPT !.pc = "candidate"]
  /\ UNCHANGED <<graph, call, lp, store>>

\* lines 144-158: the candidate for the pair (u, v) and its mistake count
SimpleCandidate ==
  /\ run.pc = "candidate" /\ run.algo = "simple"
  /\ LET u_cluster == run.clustering[graph.vertices[run.u]]
         v_cluster == run.clustering[graph.vertices[run.v]]
         test_clustering == move_cluster(clone_clustering(run.clustering),
                                         u_cluster, v_cluster)
     IN run' = IF calculate_mistakes_raises(graph)
               THEN [run EXCEPT !.pc = "raised", !.test_clustering = test_clustering]
               ELSE [run EXCEPT !.pc = "decide", !.test_clustering = test_clustering,
                                !.test_mistakes = calculate_mistakes(graph, test_clustering)]
  /\ UNCHANGED <<graph, call, lp, store>>

\* variant of simple_decide: the commit does not record the candidate as the best clustering
simple_decide_keeps_best(frame) ==
  IF frame.test_mistakes < frame.min_mistakes
  THEN [frame EXCEPT !.min_mistakes = frame.test_mistakes,
                     !.clustering = frame.test_clustering,
                     !.changed = TRUE]
  ELSE frame

\* lines 160-165
simple_decide(frame) ==
  IF frame.test_mistakes < frame.min_mistakes
  THEN [frame EXCEPT !.min_mistakes = frame.test_mistakes,
                     !.best_clustering = clone_clustering(frame.test_clustering),
                     !.clustering = frame.test_clustering,
                     !.changed = TRUE]
  ELSE frame

SimpleDecide ==
  /\ run.pc = "decide" /\ run.algo = "simple"
  /\ run' = simple_advance(simple_decide(run), graph)
  /\ UNCHANGED <<graph, call, lp, store>>

\* the signed graphs the searches are run on
UPairs(S) == {p \in S \X S : p[1] <= p[2]}
SmallSubsets(S, n) == UNION {{Range(s) : s \in [1..m -> S]} : m \in 0..n}

PairLess(a, b) == a[1] < b[1] \/ (a[1] = b[1] /\ a[2] < b[2])

RECURSIVE SortedList(_)
SortedList(S) ==
  IF S = {} THEN <<>>
  ELSE LET m == CHOOSE m \in S : \A x \in S \ {m} : PairLess(m, x)
       IN <<m>> \o SortedList(S \ {m})

\* test_suite.py, test_clustering
TestVertices == <<1, 2, 3, 4, 5>>
TestPositive == <<<<1, 2>>, <<2, 3>>, <<4, 5>>>>
TestNegative == <<<<1, 4>>, <<2, 5>>>>
TestArgs ==
  [vertices |-> TestVertices, positive_edges |-> TestPositive,
   negative_edges |-> TestNegative]

SearchArgs(ids) ==
  {[vertices |-> vs,
    positive_edges |-> SortedList({e[2] : e \in {x \in E : x[1] = "+"}}),
    negative_edges |-> SortedList({e[2] : e \in {x \in E : x[1] = "-"}})] :
     vs \in VertexLists(ids, MaxVertices),
     E \in SmallSubsets({"+", "-"} \X UPairs(ids), MaxEdges)}
  \cup {ExampleArgs, TestArgs}

InitSearch ==
  /\ \E a \in SearchArgs(Ids) :
       graph = CorrelationClustering(a.vertices, a.positive_edges, a.negative_edges)
  /\ run = Frame
  /\ call = Idle
  /\ lp = Idle
  /\ store = Idle

\* clustering.items(): a search fills its dict in the order of self.vertices, and neither
\* relabelling nor copying changes the order of the keys
items(self, clustering) ==
  SelectSeq(self.vertices, LAMBDA vertex : vertex \in DOMAIN clustering)

\* get_clusters_as_arrays: each label mapped to its vertices in the order of items
get_clusters_as_arrays(self, clustering) ==
  [cluster_id \in {clustering[vertex] : vertex \in DOMAIN clustering} |->
     SelectSeq(items(self, clustering), LAMBDA vertex : clustering[vertex] = cluster_id)]

\* cc.get_clusters_as_arrays(result.clustering) on the result of a search
CallGetClustersAsArrays ==
  /\ run.pc = "done"
  /\ call = Idle
  /\ call' = [pc |-> "returned", op |-> "get_clusters_as_arrays",
              result |-> get_clusters_as_arrays(graph, run.result.clustering)]
  /\ UNCHANGED <<graph, run, lp, store>>

NextSearch ==
  \/ GreedyStart \/ GreedyWhile \/ GreedyCandidate \/ GreedyDecide
  \/ SimpleStart \/ SimpleWhile \/ SimplePair \/ SimpleCandidate \/ SimpleDecide
  \/ CallGetClustersAsArrays

SpecSearch == InitSearch /\ [][NextSearch]_vars

\* a call that has started runs on: the program is single-threaded and nothing
\* can suspend it
FairSpecSearch == SpecSearch /\ WF_vars(NextSearch)

(***************************************************************************)
(* CorrelationClusteringLP: formulate_lp.  The object keeps the vertex list *)
(* and the two edge lists as given; indices count from 0 as in the source.  *)
(***************************************************************************)
\* __init__
CorrelationClusteringLP(vertices, positive_edges, negative_edges) ==
  [vertices |-> vertices, positive_edges |-> positive_edges,
   negative_edges |-> negative_edges]

\* f"{u}_{v}", the key of edge_variable_index
lp_key(u, v) == IntStr(u) \o <<"_">> \o IntStr(v)

\* f"z_{u}_{v}"
variable_name(u, v) == <<"z", "_">> \o lp_key(u, v)

\* variant of lp_edges: the negative edges get no variable
lp_edges_positive_only(self) == self.positive_edges

\* the edges in the order their variables are created: positive, then negative
lp_edges(self) == self.positive_edges \o self.negative_edges

\* edge_variable_index after lines 274-291: each key maps to the index of the last
\* variable created for it
edge_variable_index(self) ==
  LET edges == lp_edges(self)
      keys == {lp_key(edges[p][1], edges[p][2]) : p \in DOMAIN edges}
  IN [key \in keys |->
        (CHOOSE p \in DOMAIN edges :
           /\ lp_key(edges[p][1], edges[p][2]) = key
           /\ \A q \in DOMAIN edges :
                lp_key(edges[q][1], edges[q][2]) = key => q <= p) - 1]

\* index.get(f"{a}_{b}") or index.get(f"{b}_{a}", -1): the first lookup counts only
\* when it is neither None nor 0
variable_lookup(index, a, b) ==
  IF lp_key(a, b) \in DOMAIN index /\ index[lp_key(a, b)] # 0
  THEN index[lp_key(a, b)]
  ELSE IF lp_key(b, a) \in DOMAIN index THEN index[lp_key(b, a)] ELSE 0 - 1

\* row[idx] = value on a Python list (a negative idx counts from the end)
set_item(row, idx, value) ==
  LET pos == IF idx < 0 THEN Len(row) + idx + 1 ELSE idx + 1
  IN IF pos \in DOMAIN row THEN [row EXCEPT ![pos] = value] ELSE row

\* variant of triple_skipped: a triple is skipped only when all three edges are missing
triple_skipped_when_all_missing(index_ij, index_ik, index_jk) ==
  index_ij = 0 - 1 /\ index_ik = 0 - 1 /\ index_jk = 0 - 1

\* lines 318-319: the test that skips a triple
triple_skipped(index_ij, index_ik, index_jk) ==
  index_ij = 0 - 1 \/ index_ik = 0 - 1 \/ index_jk = 0 - 1

\* lines 321-346: the three rows of a triple with their rhs and type entries
triangle_constraints(variable_index, index_ij, index_ik, index_jk) ==
  LET zeros == [c \in 1..variable_index |-> 0]
      constraint1 == set_item(set_item(set_item(zeros, index_ij, 1), index_ik, 0 - 1),
                              index_jk, 0 - 1)
      constraint2 == set_item(set_item(set_item(zeros, index_ij, 0 - 1), index_ik, 1),
                              index_jk, 0 - 1)
      constraint3 == set_item(set_item(set_item(zeros, index_ij, 0 - 1), index_ik, 0 - 1),
                              index_jk, 1)
  IN [constraint_coefficients |-> <<constraint1, constraint2, constraint3>>,
      rhs |-> <<0, 0, 0>>,
      constraint_types |-> <<"<=", "<=", "<=">>]

NoConstraints == [constraint_coefficients |-> <<>>, rhs |-> <<>>, constraint_types |-> <<>>]

\* lines 308-346: what the body of the triple loop appends for positions i < j < k
triple_constraints(self, i, j, k) ==
  LET index == edge_variable_index(self)
      vertex_i == self.vertices[i + 1]
      vertex_j == self.vertices[j + 1]
      vertex_k == self.vertices[k + 1]
      index_ij == variable_lookup(index, vertex_i, vertex_j)
      index_ik == variable_lookup(index, vertex_i, vertex_k)
      index_jk == variable_lookup(index, vertex_j, vertex_k)
  IN IF triple_skipped(index_ij, index_ik, index_jk) THEN NoConstraints
     ELSE triangle_constraints(Len(lp_edges(self)), index_ij, index_ik, index_jk)

\* the (i, j, k) of the loops of lines 305-307, in loop order, from t on
TripleLess(a, b) ==
  \/ a[1] < b[1]
  \/ a[1] = b[1] /\ a[2] < b[2]
  \/ a[1] = b[1] /\ a[2] = b[2] /\ a[3] < b[3]

RECURSIVE triples_in_order(_)
triples_in_order(T) ==
  IF T = {} THEN <<>>
  ELSE LET t == CHOOSE t \in T : \A x \in T \ {t} : TripleLess(t, x)
       IN <<t>> \o triples_in_order(T \ {t})

triple_loop(num_vertices) ==
  triples_in_order({t \in (0..(num_vertices - 1)) \X (0..(num_vertices - 1))
                                                  \X (0..(num_vertices - 1)) :
                      t[1] < t[2] /\ t[2] < t[3]})

RECURSIVE all_constraints(_, _)
all_constraints(self, triples) ==
  IF triples = <<>> THEN NoConstraints
  ELSE LET first == triple_constraints(self, triples[1][1], triples[1][2], triples[1][3])
           rest == all_constraints(self, Tail(triples))
       IN [constraint_coefficients |->
             first.constraint_coefficients \o rest.constraint_coefficients,
           rhs |-> first.rhs \o rest.rhs,
           constraint_types |-> first.constraint_types \o rest.constraint_types]

\* formulate_lp: the returned dict
formulate_lp(self) ==
  LET edges == lp_edges(self)
      constraints == all_constraints(self, triple_loop(Len(self.vertices)))
  IN [objective_coefficients |->
        [p \in DOMAIN edges |-> IF p <= Len(self.positive_edges) THEN 1 ELSE 0 - 1],
      constraint_coefficients |-> constraints.constraint_coefficients,
      rhs |-> constraints.rhs,
      constraint_types |-> constraints.constraint_types,
      variable_bounds |-> [p \in DOMAIN edges |-> [min |-> 0, max |-> 1]],
      variable_names |-> [p \in DOMAIN edges |-> variable_name(edges[p][1], edges[p][2])]]

LPIds == 0..MaxLPId

\* the complete graph on four vertices, its six edges listed from the far end
CompleteVertices == <<0, 1, 2, 3>>
CompletePositive == <<<<2, 3>>, <<1, 3>>, <<1, 2>>>>
CompleteNegative == <<<<0, 3>>, <<0, 2>>, <<0, 1>>>>

\* the constructor arguments of the LP specification
LPArgs(ids) ==
  {a \in [vertices : VertexLists(ids, MaxLPId + 1),
          positive_edges : EdgeLists(ids, MaxLPEdges),
          negative_edges : EdgeLists(ids, MaxLPEdges)] :
     Len(a.positive_edges) + Len(a.negative_edges) <= MaxLPEdges}
  \cup {[vertices |-> TestVertices, positive_edges |-> TestPositive,
         negative_edges |-> TestNegative],
        [vertices |-> CompleteVertices, positive_edges |-> CompletePositive,
         negative_edges |-> CompleteNegative]}

InitLP ==
  /\ \E a \in LPArgs(LPIds) :
       lp = [pc |-> "constructed",
             self |-> CorrelationClusteringLP(a.vertices, a.positive_edges, a.negative_edges),
             formulation |-> formulate_lp(CorrelationClusteringLP(<<>>, <<>>, <<>>))]
  /\ graph = CorrelationClustering(<<>>, <<>>, <<>>)
  /\ call = Idle
  /\ run = Idle
  /\ store = Idle

\* lp.formulate_lp()
FormulateLP ==
  /\ lp.pc = "constructed"
  /\ lp' = [lp EXCEPT !.pc = "formulated", !.formulation = formulate_lp(lp.self)]
  /\ UNCHANGED <<graph, call, run, store>>

NextLP == FormulateLP

SpecLP == InitLP /\ [][NextLP]_vars

(***************************************************************************)
(* CorrelationClusteringLP: solve_lp and interpret_solution.  An LP value   *)
(* is kept in tenths, so 0.5 is 5 and -1 is -10.                            *)
(***************************************************************************)
Half == 5
MinusOne == 0 - 10

\* solve_lp: every variable name of the formulation mapped to 0.5
solve_lp(lp_formulation) ==
  [variable_name_ \in Range(lp_formulation.variable_names) |-> Half]

\* lp_solution.get(f"z_{a}_{b}", lp_solution.get(f"z_{b}_{a}", -1))
z_value(lp_solution, vertex, other_vertex) ==
  IF variable_name(vertex, other_vertex) \in DOMAIN lp_solution
  THEN lp_solution[variable_name(vertex, other_vertex)]
  ELSE IF variable_name(other_vertex, vertex) \in DOMAIN lp_solution
       THEN lp_solution[variable_name(other_vertex, vertex)]
       ELSE MinusOne

\* line 401: z_value != -1 and z_value < 0.5
joins_cluster(lp_solution, clustering, vertex, other_vertex) ==
  /\ z_value(lp_solution, vertex, other_vertex) # MinusOne
  /\ z_value(lp_solution, vertex, other_vertex) < Half

\* clustering[vertex] = cluster_id on a dict
set_cluster(clustering, vertex, cluster_id) ==
  [x \in DOMAIN clustering \cup {vertex} |-> IF x = vertex THEN cluster_id ELSE clustering[x]]

\* the values a solution map may hold: -1, 0.2, 0.5
ZValues == {MinusOne, 2, Half}

\* the solution maps a caller may hand to interpret_solution (names of two different ids)
SolutionMaps(ids) ==
  UNION {[K -> ZValues] :
           K \in SmallSubsets({variable_name(u, v) : u, v \in ids} \ {variable_name(u, u) : u \in ids},
                              MaxSolutionEntries)}

InterpretArgs(ids) ==
  {a \in [vertices : VertexLists(ids, MaxLPId + 1),
          positive_edges : EdgeLists(ids, MaxInterpretEdges),
          negative_edges : EdgeLists(ids, MaxInterpretEdges)] :
     Len(a.positive_edges) + Len(a.negative_edges) <= MaxInterpretEdges}
  \cup {[vertices |-> TestVertices, positive_edges |-> TestPositive,
         negative_edges |-> TestNegative]}

InitInterpret ==
  /\ \E a \in InterpretArgs(LPIds) :
       lp = [pc |-> "constructed",
             self |-> CorrelationClusteringLP(a.vertices, a.positive_edges, a.negative_edges),
             lp_solution |-> <<>>, solved |-> FALSE,
             clustering |-> <<>>, cluster_id |-> 0, i |-> 0, j |-> 0]
  /\ graph = CorrelationClustering(<<>>, <<>>, <<>>)
  /\ call = Idle
  /\ run = Idle
  /\ store = Idle

\* lp.solve_lp(lp.formulate_lp())
SolveLP ==
  /\ lp.pc = "constructed"
  /\ lp' = [lp EXCEPT !.pc = "solved", !.solved = TRUE,
                      !.lp_solution = solve_lp(formulate_lp(lp.self))]
  /\ UNCHANGED <<graph, call, run, store>>

\* lp.interpret_solution(solution) on the placeholder's solution: lines 385-386
InterpretSolved ==
  /\ lp.pc = "solved"
  /\ lp' = [lp EXCEPT !.pc = "vertex", !.clustering = <<>>, !.cluster_id = 0, !.i = 0]
  /\ UNCHANGED <<graph, call, run, store>>

\* lp.interpret_solution(solution) on a caller's solution map: lines 385-386
InterpretGiven ==
  /\ lp.pc = "constructed"
  /\ \E solution \in SolutionMaps(LPIds) :
       lp' = [lp EXCEPT !.pc = "vertex", !.lp_solution = solution,
                        !.clustering = <<>>, !.cluster_id = 0, !.i = 0]
  /\ UNCHANGED <<graph, call, run, store>>

\* lines 388-391 and 406: the outer loop takes its next vertex, or the method returns
InterpretVertex ==
  /\ lp.pc = "vertex"
  /\ lp' = IF lp.i >= Len(lp.self.vertices)
           THEN [lp EXCEPT !.pc = "done"]
           ELSE IF lp.self.vertices[lp.i + 1] \in DOMAIN lp.clustering
                THEN [lp EXCEPT !.i = lp.i + 1]
                ELSE [lp EXCEPT !.pc = "other", !.j = 0,
                                !.clustering = set_cluster(lp.clustering,
                                                           lp.self.vertices[lp.i + 1],
                                                           lp.cluster_id)]
  /\ UNCHANGED <<graph, call, run, store>>

\* lines 394-404: the inner loop takes its next vertex, or the cluster is closed
InterpretOther ==
  /\ lp.pc = "other"
  /\ lp' = IF lp.j >= Len(lp.self.vertices)
           THEN [lp EXCEPT !.pc = "vertex", !.i = lp.i + 1, !.cluster_id = lp.cluster_id + 1]
           ELSE LET vertex == lp.self.vertices[lp.i + 1]
                    other_vertex == lp.self.vertices[lp.j + 1]
                IN IF vertex = other_vertex
                   THEN [lp EXCEPT !.j = lp.j + 1]
                   ELSE IF joins_cluster(lp.lp_solution, lp.clustering, vertex, other_vertex)
                        THEN [lp EXCEPT !.j = lp.j + 1,
                                        !.clustering = set_cluster(lp.clustering, other_vertex,
                                                                   lp.cluster_id)]
                        ELSE [lp EXCEPT !.j = lp.j + 1]
  /\ UNCHANGED <<graph, call, run, store>>

NextInterpret ==
  SolveLP \/ InterpretSolved \/ InterpretGiven \/ InterpretVertex \/ InterpretOther

SpecInterpret == InitInterpret /\ [][NextInterpret]_vars

(***************************************************************************)
(* SortingAlgorithms.  Lists are indexed from 0 as in the source, so         *)
(* arr[i] of the source is arr[i + 1] here.  A sort is given as the pair of  *)
(* the input list after the call (arr) and the returned list (result).       *)
(***************************************************************************)
\* the default compare: (a > b) - (a < b)
compare(a, b) == IF a > b THEN 1 ELSE IF a < b THEN 0 - 1 ELSE 0

\* arr[i], arr[j] = arr[j], arr[i]
swap(arr, i, j) == [arr EXCEPT ![i + 1] = arr[j + 1], ![j + 1] = arr[i + 1]]

\* bubble_sort, lines 27-30: the inner loop from j on
RECURSIVE bubble_inner(_, _, _, _, _)
bubble_inner(result, n, i, j, swapped) ==
  IF j >= n - i - 1 THEN [result |-> result, swapped |-> swapped]
  ELSE IF compare(result[j + 1], result[j + 2]) > 0
       THEN bubble_inner(swap(result, j, j + 1), n, i, j + 1, TRUE)
       ELSE bubble_inner(result, n, i, j + 1, swapped)

\* bubble_sort, lines 24-34: the outer loop from i on
RECURSIVE bubble_outer(_, _, _)
bubble_outer(result, n, i) ==
  IF i >= n - 1 THEN result
  ELSE LET pass == bubble_inner(result, n, i, 0, FALSE)
       IN IF ~pass.swapped THEN pass.result ELSE bubble_outer(pass.result, n, i + 1)

bubble_sort(arr) == [arr |-> arr, result |-> bubble_outer(arr, Len(arr), 0)]

\* selection_sort, lines 54-56: the inner loop from j on
RECURSIVE selection_min(_, _, _, _)
selection_min(result, n, j, min_index) ==
  IF j >= n THEN min_index
  ELSE IF compare(result[j + 1], result[min_index + 1]) < 0
       THEN selection_min(result, n, j + 1, j)
       ELSE selection_min(result, n, j + 1, min_index)

\* selection_sort, lines 51-59: the outer loop from i on
RECURSIVE selection_outer(_, _, _)
selection_outer(result, n, i) ==
  IF i >= n - 1 THEN result
  ELSE LET min_index == selection_min(result, n, i + 1, i)
       IN IF min_index # i THEN selection_outer(swap(result, i, min_index), n, i + 1)
          ELSE selection_outer(result, n, i + 1)

selection_sort(arr) == [arr |-> arr, result |-> selection_outer(arr, Len(arr), 0)]

\* insertion_sort, lines 80-84: the while loop and the final store of key
RECURSIVE insertion_shift(_, _, _)
insertion_shift(result, j, key) ==
  IF j >= 0 /\ compare(result[j + 1], key) > 0
  THEN insertion_shift([result EXCEPT ![j + 2] = result[j + 1]], j - 1, key)
  ELSE [result EXCEPT ![j + 2] = key]

\* insertion_sort, lines 76-84: the outer loop from i on
RECURSIVE insertion_outer(_, _)
insertion_outer(result, i) ==
  IF i >= Len(result) THEN result
  ELSE insertion_outer(insertion_shift(result, i - 1, result[i + 1]), i + 1)

insertion_sort(arr) == [arr |-> arr, result |-> insertion_outer(arr, 1)]

\* _merge: the while loop from (i, j) on, then the two extends
RECURSIVE merge_loop(_, _, _, _, _)
merge_loop(left, right, i, j, result) ==
  IF i < Len(left) /\ j < Len(right)
  THEN IF compare(left[i + 1], right[j + 1]) <= 0
       THEN merge_loop(left, right, i + 1, j, Append(result, left[i + 1]))
       ELSE merge_loop(left, right, i, j + 1, Append(result, right[j + 1]))
  ELSE result \o SubSeq(left, i + 1, Len(left)) \o SubSeq(right, j + 1, Len(right))

merge(left, right) == merge_loop(left, right, 0, 0, <<>>)

\* merge_sort on a list: the returned list (slices and copies are new lists)
RECURSIVE merge_sort_list(_)
merge_sort_list(arr) ==
  LET n == Len(arr)
      mid == n \div 2
  IN IF n <= 1 THEN arr
     ELSE merge(merge_sort_list(SubSeq(arr, 1, mid)), merge_sort_list(SubSeq(arr, mid + 1, n)))

merge_sort(arr) == [arr |-> arr, result |-> merge_sort_list(arr)]

\* _partition, lines 151-154: the for loop from j on
RECURSIVE partition_loop(_, _, _, _, _)
partition_loop(arr, high, pivot, i, j) ==
  IF j >= high THEN [arr |-> arr, i |-> i]
  ELSE IF compare(arr[j + 1], pivot) <= 0
       THEN partition_loop(swap(arr, i + 1, j), high, pivot, i + 1, j + 1)
       ELSE partition_loop(arr, high, pivot, i, j + 1)

\* _partition: the list after the call and the returned pivot index
partition(arr, low, high) ==
  LET loop == partition_loop(arr, high, arr[high + 1], low - 1, low)
  IN [arr |-> swap(loop.arr, loop.i + 1, high), pivot_index |-> loop.i + 1]

\* _quick_sort_helper: the list after the call
RECURSIVE quick_sort_helper(_, _, _)
quick_sort_helper(arr, low, high) ==
  IF low < high
  THEN LET p == partition(arr, low, high)
       IN quick_sort_helper(quick_sort_helper(p.arr, low, p.pivot_index - 1),
                            p.pivot_index + 1, high)
  ELSE arr

\* variant of quick_sort: the helper works on arr itself, not on a copy
quick_sort_without_copy(arr) ==
  [arr |-> quick_sort_helper(arr, 0, Len(arr) - 1),
   result |-> quick_sort_helper(arr, 0, Len(arr) - 1)]

quick_sort(arr) == [arr |-> arr, result |-> quick_sort_helper(arr, 0, Len(arr) - 1)]

\* _heapify: the list after the call
RECURSIVE heapify(_, _, _)
heapify(arr, n, i) ==
  LET left == 2 * i + 1
      right == 2 * i + 2
      largest_left == IF left < n /\ compare(arr[left + 1], arr[i + 1]) > 0 THEN left ELSE i
      largest == IF right < n /\ compare(arr[right + 1], arr[largest_left + 1]) > 0
                 THEN right ELSE largest_left
  IN IF largest # i THEN heapify(swap(arr, i, largest), n, largest) ELSE arr

\* heap_sort, lines 173-174: range(n // 2 - 1, -1, -1) from i on
RECURSIVE build_heap(_, _, _)
build_heap(result, n, i) ==
  IF i < 0 THEN result ELSE build_heap(heapify(result, n, i), n, i - 1)

\* heap_sort, lines 177-179: range(n - 1, 0, -1) from i on
RECURSIVE extract_heap(_, _)
extract_heap(result, i) ==
  IF i <= 0 THEN result ELSE extract_heap(heapify(swap(result, 0, i), i, 0), i - 1)

heap_sort(arr) ==
  [arr |-> arr,
   result |-> extract_heap(build_heap(arr, Len(arr), (Len(arr) \div 2) - 1), Len(arr) - 1)]

\* is_sorted with the default compare
is_sorted(arr) == \A i \in 1..(Len(arr) - 1) : ~(compare(arr[i], arr[i + 1]) > 0)

SortValues == (0 - 1)..MaxSortValue

\* test_suite.py, test_sorting_algorithms
TestArr == <<64, 34, 25, 12, 22, 11, 90>>

SortInputs(values) == UNION {[1..m -> values] : m \in 0..MaxSortLen} \cup {TestArr}

SortNames ==
  {"bubble_sort", "selection_sort", "insertion_sort", "merge_sort", "quick_sort", "heap_sort"}

\* the test harness: arr is the caller's list, given its value before the first call
InitSort ==
  /\ \E arr \in SortInputs(SortValues) :
       call = [pc |-> "ready", op |-> "none", previous |-> "none", given |-> arr,
               arr |-> arr, result |-> <<>>, sorted |-> FALSE]
  /\ graph = CorrelationClustering(<<>>, <<>>, <<>>)
  /\ run = Idle
  /\ lp = Idle
  /\ store = Idle

\* result = SortingAlgorithms.<op>(arr), where outcome is the sort applied to call.arr
sort_call(op, outcome) ==
  [call EXCEPT !.pc = "returned", !.previous = call.op, !.op = op,
               !.arr = outcome.arr, !.result = outcome.result, !.sorted = FALSE]

CallBubbleSort ==
  /\ call.pc \in {"ready", "returned", "checked"}
  /\ call' = sort_call("bubble_sort", bubble_sort(call.arr))
  /\ UNCHANGED <<graph, run, lp, store>>

CallSelectionSort ==
  /\ call.pc \in {"ready", "returned", "checked"}
  /\ call' = sort_call("selection_sort", selection_sort(call.arr))
  /\ UNCHANGED <<graph, run, lp, store>>

CallInsertionSort ==
  /\ call.pc \in {"ready", "returned", "checked"}
  /\ call' = sort_call("insertion_sort", insertion_sort(call.arr))
  /\ UNCHANGED <<graph, run, lp, store>>

CallMergeSort ==
  /\ call.pc \in {"ready", "returned", "checked"}
  /\ call' = sort_call("merge_sort", merge_sort(call.arr))
  /\ UNCHANGED <<graph, run, lp, store>>

CallQuickSort ==
  /\ call.pc \in {"ready", "returned", "checked"}
  /\ call' = sort_call("quick_sort", quick_sort(call.arr))
  /\ UNCHANGED <<graph, run, lp, store>>

CallHeapSort ==
  /\ call.pc \in {"ready", "returned", "checked"}
  /\ call' = sort_call("heap_sort", heap_sort(call.arr))
  /\ UNCHANGED <<graph, run, lp, store>>

\* SortingAlgorithms.is_sorted(result)
CallIsSorted ==
  /\ call.pc = "returned"
  /\ call' = [call EXCEPT !.pc = "checked", !.sorted = is_sorted(call.result)]
  /\ UNCHANGED <<graph, run, lp, store>>

NextSort ==
  \/ CallBubbleSort \/ CallSelectionSort \/ CallInsertionSort
  \/ CallMergeSort \/ CallQuickSort \/ CallHeapSort \/ CallIsSorted

SpecSort == InitSort /\ [][NextSort]_vars

(***************************************************************************)
(* SortingAlgorithms.timsort                                                *)
(***************************************************************************)
MinRunLimit == 64

\* _calc_min_run: r |= n & 1 and n >>= 1 while n >= 64, then n + r
RECURSIVE calc_min_run_loop(_, _)
calc_min_run_loop(n, r) ==
  IF n >= MinRunLimit
  THEN calc_min_run_loop(n \div 2, IF n % 2 = 1 THEN 1 ELSE r)
  ELSE n + r

calc_min_run(n) == calc_min_run_loop(n, 0)

\* result[from:to] = part, for 0 <= from <= to <= len(result)
set_slice(result, from, to, part) ==
  SubSeq(result, 1, from) \o part \o SubSeq(result, to + 1, Len(result))

\* range(start, stop, step) raises ValueError when step is 0
range_raises(step) == step = 0

\* timsort, lines 314-318: the loop over the runs from i on
RECURSIVE timsort_runs(_, _, _, _)
timsort_runs(result, n, min_run, i) ==
  IF i >= n THEN result
  ELSE LET end == Min(i + min_run, n)
           sorted_subarray == insertion_sort(SubSeq(result, i + 1, end)).result
       IN timsort_runs(set_slice(result, i, end, sorted_subarray), n, min_run, i + min_run)

\* timsort, lines 324-332: the for loop of one merge pass from left on
RECURSIVE timsort_merge_pass(_, _, _, _)
timsort_merge_pass(result, n, size, left) ==
  IF left >= n THEN result
  ELSE LET mid == left + size - 1
           right == Min(left + 2 * size - 1, n - 1)
       IN IF mid < right
          THEN timsort_merge_pass(
                 set_slice(result, left, right + 1,
                           merge(SubSeq(result, left + 1, mid + 1),
                                 SubSeq(result, mid + 2, right + 1))),
                 n, size, left + 2 * size)
          ELSE timsort_merge_pass(result, n, size, left + 2 * size)

\* timsort, lines 322-334: the while loop from size on
RECURSIVE timsort_merges(_, _, _)
timsort_merges(result, n, size) ==
  IF size < n THEN timsort_merges(timsort_merge_pass(result, n, size, 0), n, size * 2)
  ELSE result

\* timsort: the input list after the call, the returned list, and whether the call raised
timsort(arr) ==
  LET n == Len(arr)
      min_run == calc_min_run(n)
  IN IF range_raises(min_run)
     THEN [raised |-> TRUE, arr |-> arr, result |-> <<>>]
     ELSE [raised |-> FALSE, arr |-> arr,
           result |-> timsort_merges(timsort_runs(arr, n, min_run, 0), n, min_run)]

\* a list long enough for two runs: MinRunLimit + 1 elements, descending with repeats
LongArr == [k \in 1..(MinRunLimit + 1) |-> (MinRunLimit + 1 - k) \div 2]

TimsortInputs(values) == UNION {[1..m -> values] : m \in 0..MaxSortLen} \cup {TestArr, LongArr}

InitTimsort ==
  /\ \E arr \in TimsortInputs(SortValues) :
       call = [pc |-> "ready", op |-> "none", given |-> arr, arr |-> arr, result |-> <<>>]
  /\ graph = CorrelationClustering(<<>>, <<>>, <<>>)
  /\ run = Idle
  /\ lp = Idle
  /\ store = Idle

\* result = SortingAlgorithms.timsort(arr)
CallTimsort ==
  /\ call.pc = "ready"
  /\ call' = IF timsort(call.arr).raised
             THEN [call EXCEPT !.pc = "raised", !.op = "timsort", !.arr = timsort(call.arr).arr,
                               !.result = "ValueError"]
             ELSE [call EXCEPT !.pc = "returned", !.op = "timsort",
                               !.arr = timsort(call.arr).arr,
                               !.result = timsort(call.arr).result]
  /\ UNCHANGED <<graph, run, lp, store>>

NextTimsort == CallTimsort

SpecTimsort == InitTimsort /\ [][NextTimsort]_vars

(***************************************************************************)
(* The whole module: a graph is constructed and one of its uses runs.       *)
(***************************************************************************)
(***************************************************************************)
(* Python values used as keys: the int n, the float n.0 and the str whose   *)
(* text is the decimal text of n.  Keys are compared with == and hashed     *)
(* through str(key).                                                        *)
(***************************************************************************)
PyInt(n) == [type |-> "int", value |-> n]
PyFloat(n) == [type |-> "float", value |-> n]
PyStr(n) == [type |-> "str", value |-> n]

None == [type |-> "NoneType", value |-> 0]

\* x == y: an int equals the float of the same value; a str equals only the same str,
\* None only None
py_eq(x, y) ==
  IF x.type \in {"str", "NoneType"} \/ y.type \in {"str", "NoneType"}
  THEN x.type = y.type /\ x.value = y.value
  ELSE x.value = y.value

\* str(key)
py_str(key) ==
  IF key.type = "float" THEN IntStr(key.value) \o <<".", "0">> ELSE IntStr(key.value)

\* ord(char) for the characters of these texts
ord(char) ==
  CASE char = "." -> 46
    [] char = "-" -> 45
    [] OTHER -> 48 + DigitValue(char)

abs(n) == IF n < 0 THEN 0 - n ELSE n

HashSeed == 5381

\* _hash, lines 18-22: hash_value = ((hash_value << 5) + hash_value) + ord(char) per
\* character (texts of at most 3 characters keep the value below 2^31)
RECURSIVE djb2(_, _)
djb2(hash_value, key_str) ==
  IF key_str = <<>> THEN hash_value
  ELSE djb2(((hash_value * 32) + hash_value) + ord(Head(key_str)), Tail(key_str))

(***************************************************************************)
(* HashTable (chaining).  A table is a record of _capacity, _buckets (a     *)
(* list of lists of key/value pairs) and _size; list index i is i + 1 here. *)
(***************************************************************************)
DefaultCapacity == 16
ShrinkAbove == 16

\* HashTable(capacity)
HashTable(capacity) ==
  [capacity |-> capacity, buckets |-> [index \in 1..capacity |-> <<>>], size |-> 0]

HashTable_hash(self, key) == abs(djb2(HashSeed, py_str(key))) % self.capacity

\* the position (from 1) of the first pair of the bucket whose key == key, 0 if none
first_match(bucket, key) ==
  IF \E k \in DOMAIN bucket : py_eq(bucket[k].key, key)
  THEN CHOOSE k \in DOMAIN bucket :
         /\ py_eq(bucket[k].key, key)
         /\ \A m \in 1..(k - 1) : ~py_eq(bucket[m].key, key)
  ELSE 0

\* the pairs of all buckets in bucket order
RECURSIVE all_pairs(_, _)
all_pairs(buckets, index) ==
  IF index >= Len(buckets) THEN <<>>
  ELSE buckets[index + 1] \o all_pairs(buckets, index + 1)

RECURSIVE HashTable_put(_, _, _)
RECURSIVE HashTable_rehash(_, _)

\* _resize(new_capacity): fresh buckets, then put of every old pair
HashTable_resize(self, new_capacity) ==
  HashTable_rehash(HashTable(new_capacity), all_pairs(self.buckets, 0))

\* _resize, lines 142-144: the loops over the old pairs
HashTable_rehash(self, pairs) ==
  IF pairs = <<>> THEN self
  ELSE HashTable_rehash(HashTable_put(self, Head(pairs).key, Head(pairs).value), Tail(pairs))

\* put(key, value): the table after the call (size / capacity > 0.75 is 4 size > 3 capacity)
HashTable_put(self, key, value) ==
  LET index == HashTable_hash(self, key)
      bucket == self.buckets[index + 1]
      found == first_match(bucket, key)
      added == [self EXCEPT !.buckets[index + 1] = Append(bucket, [key |-> key, value |-> value]),
                            !.size = self.size + 1]
  IN IF found # 0
     THEN [self EXCEPT !.buckets[index + 1][found].value = value]
     ELSE IF 4 * added.size > 3 * added.capacity
          THEN HashTable_resize(added, added.capacity * 2)
          ELSE added

\* get(key): the value, or KeyError
HashTable_get(self, key) ==
  LET bucket == self.buckets[HashTable_hash(self, key) + 1]
      found == first_match(bucket, key)
  IN IF found # 0 THEN [raised |-> FALSE, value |-> bucket[found].value]
     ELSE [raised |-> TRUE, value |-> 0]

\* has(key)
HashTable_has(self, key) ==
  first_match(self.buckets[HashTable_hash(self, key) + 1], key) # 0

\* del bucket[i] for a position counted from 1
del(bucket, position) ==
  SubSeq(bucket, 1, position - 1) \o SubSeq(bucket, position + 1, Len(bucket))

\* remove(key): the removed value and the table after the call, or KeyError
\* (size / capacity < 0.25 is 4 size < capacity)
HashTable_remove(self, key) ==
  LET index == HashTable_hash(self, key)
      bucket == self.buckets[index + 1]
      found == first_match(bucket, key)
      removed == [self EXCEPT !.buckets[index + 1] = del(bucket, found),
                              !.size = self.size - 1]
  IN IF found # 0
     THEN [raised |-> FALSE, value |-> bucket[found].value,
           self |-> IF removed.capacity > ShrinkAbove /\ 4 * removed.size < removed.capacity
                    THEN HashTable_resize(removed, removed.capacity \div 2)
                    ELSE removed]
     ELSE [raised |-> TRUE, value |-> 0, self |-> self]

\* size()
HashTable_size(self) == self.size

(***************************************************************************)
(* An ordinary dict the same calls are applied to: a set of key/value pairs *)
(* with at most one pair per key, keys compared with ==.                    *)
(***************************************************************************)
dict_has(d, key) == \E pair \in d : py_eq(pair.key, key)

dict_get(d, key) == (CHOOSE pair \in d : py_eq(pair.key, key)).value

\* d[key] = value: the value of an equal key is replaced, the key object kept
dict_set(d, key, value) ==
  IF dict_has(d, key)
  THEN {IF py_eq(pair.key, key) THEN [pair EXCEPT !.value = value] ELSE pair : pair \in d}
  ELSE d \cup {[key |-> key, value |-> value]}

\* del d[key]
dict_del(d, key) == {pair \in d : ~py_eq(pair.key, key)}

(***************************************************************************)
(* Calls on a chaining HashTable.                                           *)
(***************************************************************************)
TableKeys(n) == {PyInt(k) : k \in 1..n} \cup {PyStr(k) : k \in 1..n} \cup {PyFloat(1)}
TableValues(n) == 1..n
ChainCapacities == {1, 2, DefaultCapacity, DefaultCapacity + 1, 2 * DefaultCapacity + 2}

InitChain ==
  /\ \E capacity \in ChainCapacities : store = HashTable(capacity)
  /\ call = [pc |-> "ready", op |-> "none", key |-> PyInt(0), value |-> 0,
             expected |-> {}]
  /\ graph = CorrelationClustering(<<>>, <<>>, <<>>)
  /\ run = Idle
  /\ lp = Idle

\* table.put(key, value)
ChainPut ==
  /\ call.pc \in {"ready", "returned", "raised"}
  /\ \E key \in TableKeys(MaxKey), value \in TableValues(MaxTableValue) :
       /\ store' = HashTable_put(store, key, value)
       /\ call' = [pc |-> "returned", op |-> "put", key |-> key, value |-> value,
                   expected |-> dict_set(call.expected, key, value)]
  /\ UNCHANGED <<graph, run, lp>>

\* table.remove(key)
ChainRemove ==
  /\ call.pc \in {"ready", "returned", "raised"}
  /\ \E key \in TableKeys(MaxKey) :
       /\ store' = HashTable_remove(store, key).self
       /\ call' = [pc |-> IF HashTable_remove(store, key).raised THEN "raised" ELSE "returned",
                   op |-> "remove", key |-> key,
                   value |-> HashTable_remove(store, key).value,
                   expected |-> dict_del(call.expected, key)]
  /\ UNCHANGED <<graph, run, lp>>

\* table.get(key)
ChainGet ==
  /\ call.pc \in {"ready", "returned", "raised"}
  /\ \E key \in TableKeys(MaxKey) :
       call' = [pc |-> IF HashTable_get(store, key).raised THEN "raised" ELSE "returned",
                op |-> "get", key |-> key, value |-> HashTable_get(store, key).value,
                expected |-> call.expected]
  /\ UNCHANGED <<graph, run, lp, store>>

NextChain == ChainPut \/ ChainRemove \/ ChainGet

SpecChain == InitChain /\ [][NextChain]_vars

(***************************************************************************)
(* LinearProbingHashTable.  A table is a record of _capacity, _keys,        *)
(* _values, _deleted and _size; list index i is i + 1 here.                 *)
(***************************************************************************)
\* LinearProbingHashTable(capacity)
LinearProbingHashTable(capacity) ==
  [capacity |-> capacity,
   keys |-> [index \in 1..capacity |-> None],
   values |-> [index \in 1..capacity |-> None],
   deleted |-> [index \in 1..capacity |-> FALSE],
   size |-> 0]

LinearProbing_hash(self, key) == abs(djb2(HashSeed, py_str(key))) % self.capacity

\* _find_position, lines 208-211: the while loop from index on, after `steps` slots were
\* passed.  The loop changes nothing but index, so once every slot was passed without
\* leaving the loop it never ends.
RECURSIVE probe(_, _, _, _)
probe(self, key, index, steps) ==
  IF self.keys[index + 1] # None \/ self.deleted[index + 1]
  THEN IF py_eq(self.keys[index + 1], key) /\ ~self.deleted[index + 1]
       THEN [hangs |-> FALSE, index |-> index]
       ELSE IF steps + 1 >= self.capacity
            THEN [hangs |-> TRUE, index |-> index]
            ELSE probe(self, key, (index + 1) % self.capacity, steps + 1)
  ELSE [hangs |-> FALSE, index |-> index]

\* _find_position(key)
find_position(self, key) == probe(self, key, LinearProbing_hash(self, key), 0)

RECURSIVE LinearProbing_put(_, _, _)
RECURSIVE LinearProbing_rehash(_, _, _, _)

\* _resize(new_capacity): fresh lists, then the loop over the old slots
LinearProbing_resize(self, new_capacity) ==
  LinearProbing_rehash(LinearProbingHashTable(new_capacity), self.keys, self.values, 0)

\* _resize, lines 315-317: the loop from i on; self._deleted is the new list, and
\* self._deleted[i] raises IndexError when i is past its end
LinearProbing_rehash(self, old_keys, old_values, i) ==
  IF i >= Len(old_keys) THEN [outcome |-> "returned", self |-> self]
  ELSE IF old_keys[i + 1] = None
       THEN LinearProbing_rehash(self, old_keys, old_values, i + 1)
       ELSE IF i >= Len(self.deleted) THEN [outcome |-> "IndexError", self |-> self]
            ELSE IF self.deleted[i + 1]
                 THEN LinearProbing_rehash(self, old_keys, old_values, i + 1)
                 ELSE LET done == LinearProbing_put(self, old_keys[i + 1], old_values[i + 1])
                      IN IF done.outcome # "returned" THEN done
                         ELSE LinearProbing_rehash(done.self, old_keys, old_values, i + 1)

\* put(key, value): how the call ends ("returned", "hangs" or "IndexError") and the table then
LinearProbing_put(self, key, value) ==
  LET resized == IF 4 * self.size > 3 * self.capacity
                 THEN LinearProbing_resize(self, self.capacity * 2)
                 ELSE [outcome |-> "returned", self |-> self]
      table == resized.self
      position == find_position(table, key)
      index == position.index
  IN IF resized.outcome # "returned" THEN resized
     ELSE IF position.hangs THEN [outcome |-> "hangs", self |-> table]
     ELSE [outcome |-> "returned",
           self |-> [table EXCEPT
                       !.size = IF table.keys[index + 1] = None THEN table.size + 1
                                ELSE table.size,
                       !.keys[index + 1] = key,
                       !.values[index + 1] = value,
                       !.deleted[index + 1] = FALSE]]

\* get(key): how the call ends ("returned", "KeyError" or "hangs") and the value
LinearProbing_get(self, key) ==
  LET position == find_position(self, key)
      index == position.index
  IN IF position.hangs THEN [outcome |-> "hangs", value |-> None]
     ELSE IF py_eq(self.keys[index + 1], key) /\ ~self.deleted[index + 1]
          THEN [outcome |-> "returned", value |-> self.values[index + 1]]
          ELSE [outcome |-> "KeyError", value |-> None]

\* has(key): how the call ends ("returned" or "hangs") and the value
LinearProbing_has(self, key) ==
  LET position == find_position(self, key)
      index == position.index
  IN IF position.hangs THEN [outcome |-> "hangs", value |-> FALSE]
     ELSE [outcome |-> "returned",
           value |-> py_eq(self.keys[index + 1], key) /\ ~self.deleted[index + 1]]

\* remove(key): how the call ends ("returned", "KeyError", "hangs" or "IndexError"), the
\* value and the table then
LinearProbing_remove(self, key) ==
  LET position == find_position(self, key)
      index == position.index
      marked == [self EXCEPT !.deleted[index + 1] = TRUE, !.size = self.size - 1]
      resized == IF marked.capacity > ShrinkAbove /\ 4 * marked.size < marked.capacity
                 THEN LinearProbing_resize(marked, marked.capacity \div 2)
                 ELSE [outcome |-> "returned", self |-> marked]
  IN IF position.hangs THEN [outcome |-> "hangs", value |-> None, self |-> self]
     ELSE IF py_eq(self.keys[index + 1], key) /\ ~self.deleted[index + 1]
          THEN [outcome |-> resized.outcome, value |-> self.values[index + 1],
                self |-> resized.self]
          ELSE [outcome |-> "KeyError", value |-> None, self |-> self]

\* keys(): the keys of the slots that hold a key and are not marked deleted
LinearProbing_keys(self) ==
  {self.keys[index] : index \in {i \in 1..self.capacity :
                                   self.keys[i] # None /\ ~self.deleted[i]}}

\* size()
LinearProbing_size(self) == self.size

(***************************************************************************)
(* Calls on a LinearProbingHashTable.                                       *)
(***************************************************************************)
ProbeKeys(n) == {PyInt(k) : k \in 1..n}
ProbeValues(n) == {PyInt(k) : k \in 1..n}
ProbeCapacities == {1, DefaultCapacity + 1, DefaultCapacity + 2}

\* the program counter after a call that ended with the given outcome
pc_after(outcome) ==
  CASE outcome = "returned" -> "returned"
    [] outcome = "hangs" -> "hung"
    [] OTHER -> "raised"

InitProbe ==
  /\ \E capacity \in ProbeCapacities : store = LinearProbingHashTable(capacity)
  /\ call = [pc |-> "ready", op |-> "none", key |-> None, outcome |-> "returned",
             value |-> None, removed |-> {}]
  /\ graph = CorrelationClustering(<<>>, <<>>, <<>>)
  /\ run = Idle
  /\ lp = Idle

\* table.put(key, value)
ProbePut ==
  /\ call.pc \in {"ready", "returned", "raised"}
  /\ \E key \in ProbeKeys(MaxProbeKey), value \in ProbeValues(MaxProbeValue) :
       LET done == LinearProbing_put(store, key, value)
       IN /\ store' = done.self
          /\ call' = [pc |-> pc_after(done.outcome), op |-> "put", key |-> key,
                      outcome |-> done.outcome, value |-> None,
                      removed |-> IF done.outcome = "returned"
                                  THEN {k \in call.removed : ~py_eq(k, key)}
                                  ELSE call.removed]
  /\ UNCHANGED <<graph, run, lp>>

\* table.remove(key)
ProbeRemove ==
  /\ call.pc \in {"ready", "returned", "raised"}
  /\ \E key \in ProbeKeys(MaxProbeKey) :
       LET done == LinearProbing_remove(store, key)
       IN /\ store' = done.self
          /\ call' = [pc |-> pc_after(done.outcome), op |-> "remove", key |-> key,
                      outcome |-> done.outcome, value |-> done.value,
                      removed |-> IF done.outcome \in {"returned", "IndexError"}
                                  THEN call.removed \cup {key}
                                  ELSE call.removed]
  /\ UNCHANGED <<graph, run, lp>>

\* table.get(key)
ProbeGet ==
  /\ call.pc \in {"ready", "returned", "raised"}
  /\ \E key \in ProbeKeys(MaxProbeKey) :
       LET done == LinearProbing_get(store, key)
       IN call' = [pc |-> pc_after(done.outcome), op |-> "get", key |-> key,
                   outcome |-> done.outcome, value |-> done.value,
                   removed |-> call.removed]
  /\ UNCHANGED <<graph, run, lp, store>>

\* table.has(key)
ProbeHas ==
  /\ call.pc \in {"ready", "returned", "raised"}
  /\ \E key \in ProbeKeys(MaxProbeKey) :
       LET done == LinearProbing_has(store, key)
       IN call' = [pc |-> pc_after(done.outcome), op |-> "has", key |-> key,
                   outcome |-> done.outcome,
                   value |-> IF done.value THEN PyInt(1) ELSE PyInt(0),
                   removed |-> call.removed]
  /\ UNCHANGED <<graph, run, lp, store>>

NextProbe == ProbePut \/ ProbeRemove \/ ProbeGet \/ ProbeHas

SpecProbe == InitProbe /\ [][NextProbe]_vars

(***************************************************************************)
(* LinkedList.  Nodes live in a heap: a function from node ids to ListNode  *)
(* records; a reference is a node id and None is Null.  A node nothing      *)
(* refers to any more is freed.                                             *)
(***************************************************************************)
Null == 0

\* ListNode(data)
ListNode(data) == [data |-> data, next |-> Null]

\* LinkedList()
LinkedList == [head |-> Null, tail |-> Null, size |-> 0, nodes |-> <<>>]

\* the id of a newly made node: the least id not in use
new_node(self) ==
  CHOOSE id \in 1..(Cardinality(DOMAIN self.nodes) + 1) :
    /\ id \notin DOMAIN self.nodes
    /\ \A other \in 1..(id - 1) : other \in DOMAIN self.nodes

\* the nodes reachable from a reference by next, the reference's node included
RECURSIVE reachable(_, _, _)
reachable(nodes, current, seen) ==
  IF current = Null \/ current \in seen THEN seen
  ELSE reachable(nodes, nodes[current].next, seen \cup {current})

\* the list with the nodes that neither head nor tail leads to freed
collect(self) ==
  LET live == reachable(self.nodes, self.head, {}) \cup reachable(self.nodes, self.tail, {})
  IN [self EXCEPT !.nodes = [id \in live |-> self.nodes[id]]]

\* prepend(data)
prepend(self, data) ==
  LET new == new_node(self)
  IN IF self.head = Null
     THEN [self EXCEPT !.nodes = (new :> ListNode(data)) @@ self.nodes,
                       !.head = new, !.tail = new, !.size = self.size + 1]
     ELSE [self EXCEPT !.nodes = (new :> [ListNode(data) EXCEPT !.next = self.head])
                                   @@ self.nodes,
                       !.head = new, !.size = self.size + 1]

\* append(data)
append(self, data) ==
  LET new == new_node(self)
  IN IF self.tail = Null
     THEN [self EXCEPT !.nodes = (new :> ListNode(data)) @@ self.nodes,
                       !.head = new, !.tail = new, !.size = self.size + 1]
     ELSE [self EXCEPT !.nodes = (new :> ListNode(data))
                                   @@ [self.nodes EXCEPT ![self.tail].next = new],
                       !.tail = new, !.size = self.size + 1]

\* for i in range(steps): current = current.next
RECURSIVE advance(_, _, _)
advance(nodes, current, steps) ==
  IF steps <= 0 THEN current ELSE advance(nodes, nodes[current].next, steps - 1)

\* insert_at(data, index): whether IndexError is raised, and the list after the call
insert_at(self, data, index) ==
  IF index < 0 \/ index > self.size THEN [raised |-> TRUE, self |-> self]
  ELSE IF index = 0 THEN [raised |-> FALSE, self |-> prepend(self, data)]
  ELSE IF index = self.size THEN [raised |-> FALSE, self |-> append(self, data)]
  ELSE LET new == new_node(self)
           current == advance(self.nodes, self.head, index - 1)
       IN [raised |-> FALSE,
           self |-> [self EXCEPT
                       !.nodes = (new :> [ListNode(data) EXCEPT
                                            !.next = self.nodes[current].next])
                                   @@ [self.nodes EXCEPT ![current].next = new],
                       !.size = self.size + 1]]

\* remove_at(index): whether IndexError is raised, the removed data, the list after the call
remove_at(self, index) ==
  IF index < 0 \/ index >= self.size
  THEN [raised |-> TRUE, value |-> 0, self |-> self]
  ELSE IF index = 0
  THEN [raised |-> FALSE, value |-> self.nodes[self.head].data,
        self |-> collect([self EXCEPT
                            !.head = self.nodes[self.head].next,
                            !.tail = IF self.nodes[self.head].next = Null
                                     THEN Null ELSE self.tail,
                            !.size = self.size - 1])]
  ELSE LET current == advance(self.nodes, self.head, index - 1)
           removed == self.nodes[current].next
           after == self.nodes[removed].next
       IN [raised |-> FALSE, value |-> self.nodes[removed].data,
           self |-> collect([self EXCEPT
                               !.nodes[current].next = after,
                               !.tail = IF after = Null THEN current ELSE self.tail,
                               !.size = self.size - 1])]

\* get(index): whether IndexError is raised, and the data
LinkedList_get(self, index) ==
  IF index < 0 \/ index >= self.size THEN [raised |-> TRUE, value |-> 0]
  ELSE [raised |-> FALSE, value |-> self.nodes[advance(self.nodes, self.head, index)].data]

\* reverse, lines 114-118: the while loop from (prev, current) on
RECURSIVE reverse_loop(_, _, _)
reverse_loop(nodes, prev, current) ==
  IF current # Null
  THEN reverse_loop([nodes EXCEPT ![current].next = prev], current, nodes[current].next)
  ELSE [nodes |-> nodes, prev |-> prev]

\* a slip: self.tail = self.head is left out
reverse_keeps_tail(self) ==
  LET done == reverse_loop(self.nodes, Null, self.head)
  IN [self EXCEPT !.nodes = done.nodes, !.head = done.prev]

\* reverse()
reverse(self) ==
  LET done == reverse_loop(self.nodes, Null, self.head)
  IN [self EXCEPT !.tail = self.head, !.nodes = done.nodes, !.head = done.prev]

\* size()
LinkedList_size(self) == self.size

\* to_list, lines 149-151: the while loop from current on; a walk that comes back to a
\* node it has passed never ends
RECURSIVE to_list_loop(_, _, _, _)
to_list_loop(nodes, current, result, seen) ==
  IF current = Null THEN [hangs |-> FALSE, result |-> result]
  ELSE IF current \in seen THEN [hangs |-> TRUE, result |-> result]
  ELSE to_list_loop(nodes, nodes[current].next, Append(result, nodes[current].data),
                    seen \cup {current})

\* to_list()
to_list(self) == to_list_loop(self.nodes, self.head, <<>>, {})

(***************************************************************************)
(* Calls on a LinkedList, and an ordinary list the same calls are applied   *)
(* to (list.insert(0, x), list.append(x), list.insert(i, x), del list[i],   *)
(* list.reverse()).                                                         *)
(***************************************************************************)
list_insert(list, index, data) ==
  SubSeq(list, 1, index) \o <<data>> \o SubSeq(list, index + 1, Len(list))

list_del(list, index) ==
  SubSeq(list, 1, index) \o SubSeq(list, index + 2, Len(list))

list_reverse(list) == [k \in 1..Len(list) |-> list[Len(list) + 1 - k]]

ListData(n) == 1..n

InitList ==
  /\ store = LinkedList
  /\ call = [pc |-> "ready", op |-> "none", index |-> 0, value |-> 0, expected |-> <<>>]
  /\ graph = CorrelationClustering(<<>>, <<>>, <<>>)
  /\ run = Idle
  /\ lp = Idle

\* linked_list.prepend(data)
ListPrepend ==
  /\ store.size < MaxListLen
  /\ \E data \in ListData(MaxListData) :
       /\ store' = prepend(store, data)
       /\ call' = [pc |-> "returned", op |-> "prepend", index |-> 0, value |-> data,
                   expected |-> list_insert(call.expected, 0, data)]
  /\ UNCHANGED <<graph, run, lp>>

\* linked_list.append(data)
ListAppend ==
  /\ store.size < MaxListLen
  /\ \E data \in ListData(MaxListData) :
       /\ store' = append(store, data)
       /\ call' = [pc |-> "returned", op |-> "append", index |-> 0, value |-> data,
                   expected |-> Append(call.expected, data)]
  /\ UNCHANGED <<graph, run, lp>>

\* linked_list.insert_at(data, index)
ListInsertAt ==
  /\ store.size < MaxListLen
  /\ \E data \in ListData(MaxListData), index \in (0 - 1)..(MaxListLen + 1) :
       /\ store' = insert_at(store, data, index).self
       /\ call' = [pc |-> IF insert_at(store, data, index).raised THEN "raised" ELSE "returned",
                   op |-> "insert_at", index |-> index, value |-> data,
                   expected |-> IF index \in 0..Len(call.expected)
                                THEN list_insert(call.expected, index, data)
                                ELSE call.expected]
  /\ UNCHANGED <<graph, run, lp>>

\* linked_list.remove_at(index)
ListRemoveAt ==
  /\ \E index \in (0 - 1)..(MaxListLen + 1) :
       /\ store' = remove_at(store, index).self
       /\ call' = [pc |-> IF remove_at(store, index).raised THEN "raised" ELSE "returned",
                   op |-> "remove_at", index |-> index,
                   value |-> remove_at(store, index).value,
                   expected |-> IF index \in 0..(Len(call.expected) - 1)
                                THEN list_del(call.expected, index)
                                ELSE call.expected]
  /\ UNCHANGED <<graph, run, lp>>

\* linked_list.get(index)
ListGet ==
  /\ \E index \in (0 - 1)..(MaxListLen + 1) :
       call' = [pc |-> IF LinkedList_get(store, index).raised THEN "raised" ELSE "returned",
                op |-> "get", index |-> index,
                value |-> LinkedList_get(store, index).value,
                expected |-> call.expected]
  /\ UNCHANGED <<graph, run, lp, store>>

\* linked_list.reverse()
ListReverse ==
  /\ store' = reverse(store)
  /\ call' = [pc |-> "returned", op |-> "reverse", index |-> 0, value |-> 0,
              expected |-> list_reverse(call.expected)]
  /\ UNCHANGED <<graph, run, lp>>

NextList ==
  ListPrepend \/ ListAppend \/ ListInsertAt \/ ListRemoveAt \/ ListGet \/ ListReverse

SpecList == InitList /\ [][NextList]_vars

(***************************************************************************)
(* The streaming estimator.  Real numbers (epsilon, alpha, the deltas, the  *)
(* frequencies and the values of f) are counted in tenths: 0.1 is 1 and 1   *)
(* is One.  An update is a record of item_index and delta.                  *)
(***************************************************************************)
One == 10
MinAlpha == 20

\* calculate_frequency_vector, lines 48-57: the loop over the updates from update_index on
RECURSIVE frequency_loop(_, _, _, _, _)
frequency_loop(v, n, updates, stop, update_index) ==
  IF update_index >= stop THEN v
  ELSE LET update == updates[update_index + 1]
           item_index == update.item_index - 1
       IN IF item_index < 0 \/ item_index >= n
          THEN frequency_loop(v, n, updates, stop, update_index + 1)
          ELSE frequency_loop([v EXCEPT ![item_index + 1] = v[item_index + 1] + update.delta],
                              n, updates, stop, update_index + 1)

\* calculate_frequency_vector(n, updates, j): whether ValueError is raised, and the vector
calculate_frequency_vector(n, updates, j) ==
  IF n <= 0 THEN [raised |-> TRUE, v |-> <<>>]
  ELSE [raised |-> FALSE,
        v |-> frequency_loop([k \in 1..n |-> 0], n, updates, Min(j, Len(updates)), 0)]

\* is_multiplicative_approximation(epsilon, x, y): whether ValueError is raised, and the
\* value; y < (1 + epsilon) * x is One * y < (One + epsilon) * x in tenths
is_multiplicative_approximation(epsilon, x, y) ==
  IF epsilon < 0 THEN [raised |-> TRUE, value |-> FALSE]
  ELSE IF x < 0 \/ y < 0 THEN [raised |-> TRUE, value |-> FALSE]
  ELSE [raised |-> FALSE, value |-> x <= y /\ One * y < (One + epsilon) * x]

RECURSIVE fold_vector(_, _, _)
fold_vector(f, v, k) ==
  IF k = 1 THEN v[1]
  ELSE LET rest == fold_vector(f, v, k - 1)
       IN CASE f = "max" -> IF v[k] > rest THEN v[k] ELSE rest
            [] f = "min" -> IF v[k] < rest THEN v[k] ELSE rest
            [] OTHER -> rest + v[k]

\* f(v) for the functions max, min and sum handed to the algorithm
apply(f, v) == fold_vector(f, v, Len(v))

\* oblivious_streaming_algorithm(f, epsilon, alpha, n, m, updates): how the call ends
\* ("returned" or "ValueError"), whether it returns None, and the value it returns
oblivious_streaming_algorithm(f, epsilon, alpha, n, m, updates) ==
  IF alpha < MinAlpha THEN [outcome |-> "returned", none |-> TRUE, value |-> 0]
  ELSE IF epsilon < 0 \/ n <= 0 \/ m <= 0
       THEN [outcome |-> "ValueError", none |-> FALSE, value |-> 0]
  ELSE LET v == calculate_frequency_vector(n, updates, Min(Len(updates), m)).v
           exact_value == apply(f, v)
           approximates == is_multiplicative_approximation(epsilon, exact_value, exact_value)
       IN IF approximates.raised THEN [outcome |-> "ValueError", none |-> FALSE, value |-> 0]
          ELSE IF approximates.value
               THEN [outcome |-> "returned", none |-> FALSE, value |-> exact_value]
               ELSE [outcome |-> "returned", none |-> TRUE, value |-> 0]

StreamUpdate(item_index, delta) == [item_index |-> item_index, delta |-> delta]

\* test_suite.py, test_estimator
TestUpdates == <<StreamUpdate(1, 10), StreamUpdate(2, 20), StreamUpdate(1, 0 - 5)>>
TestStreamArgs ==
  [f |-> "max", epsilon |-> 1, alpha |-> 30, n |-> 3, m |-> 10, updates |-> TestUpdates]

StreamArgs(max_n, max_len) ==
  LET update_set == {StreamUpdate(i, d) : i \in 0..(max_n + 1), d \in {0 - 5, 10, 20}}
  IN [f : {"max", "min", "sum"},
      epsilon : {0 - 1, 0, 1},
      alpha : {One, MinAlpha, MinAlpha + One},
      n : 0..max_n,
      m : 0..max_len,
      updates : UNION {[1..len -> update_set] : len \in 0..max_len}]
     \cup {TestStreamArgs}

InitStream ==
  /\ \E args \in StreamArgs(MaxVectorLen, MaxStreamLen) :
       call = [pc |-> "ready", op |-> "none", args |-> args,
               result |-> [outcome |-> "returned", none |-> TRUE, value |-> 0]]
  /\ graph = CorrelationClustering(<<>>, <<>>, <<>>)
  /\ run = Idle
  /\ lp = Idle
  /\ store = Idle

\* result = oblivious_streaming_algorithm(f, epsilon, alpha, n, m, updates)
CallObliviousStreaming ==
  /\ call.pc = "ready"
  /\ LET a == call.args
         result == oblivious_streaming_algorithm(a.f, a.epsilon, a.alpha, a.n, a.m, a.updates)
     IN call' = [call EXCEPT !.pc = IF result.outcome = "returned" THEN "returned" ELSE "raised",
                             !.op = "oblivious_streaming_algorithm",
                             !.result = result]
  /\ UNCHANGED <<graph, run, lp, store>>

NextStream == CallObliviousStreaming

SpecStream == InitStream /\ [][NextStream]_vars

(***************************************************************************)
(* subtree_mode.  A TreeNode is a record of children (a list of nodes) and  *)
(* color, where None is the empty set and a colour c is {c}.  id(node) is   *)
(* the path of child positions from the root to the node.                   *)
(***************************************************************************)
TreeNode(children, color) == [children |-> children, color |-> color]

NoMode == 0 - 1

\* color_counts[child_mode] = color_counts.get(child_mode, 0) + 1, on a dict kept as the
\* list of its items in insertion order
count_color(color_counts, child_mode) ==
  IF \E k \in DOMAIN color_counts : color_counts[k].color = child_mode
  THEN [k \in DOMAIN color_counts |->
          IF color_counts[k].color = child_mode
          THEN [color_counts[k] EXCEPT !.count = color_counts[k].count + 1]
          ELSE color_counts[k]]
  ELSE Append(color_counts, [color |-> child_mode, count |-> 1])

\* subtree_mode, lines 39-42: the loop over the items of color_counts from item k on
RECURSIVE pick_mode(_, _, _, _)
pick_mode(color_counts, k, mode, max_count) ==
  IF k > Len(color_counts) THEN mode
  ELSE IF color_counts[k].count > max_count
       THEN pick_mode(color_counts, k + 1, color_counts[k].color, color_counts[k].count)
       ELSE pick_mode(color_counts, k + 1, mode, max_count)

RECURSIVE compute_subtree_mode(_, _, _)
RECURSIVE children_loop(_, _, _, _, _)

\* subtree_mode, lines 32-34: the loop over node.children from child k on; the map and
\* the counts after it
children_loop(node, node_id, k, subtree_modes, color_counts) ==
  IF k > Len(node.children)
  THEN [subtree_modes |-> subtree_modes, color_counts |-> color_counts]
  ELSE LET child == compute_subtree_mode(node.children[k], Append(node_id, k), subtree_modes)
       IN children_loop(node, node_id, k + 1, child.subtree_modes,
                        count_color(color_counts, child.mode))

\* compute_subtree_mode(node): the mode returned and the map subtree_modes after the call
compute_subtree_mode(node, node_id, subtree_modes) ==
  IF node_id \in DOMAIN subtree_modes
  THEN [mode |-> subtree_modes[node_id], subtree_modes |-> subtree_modes]
  ELSE IF node.children = <<>>
  THEN LET mode == IF node.color # {} THEN CHOOSE c \in node.color : TRUE ELSE NoMode
       IN [mode |-> mode, subtree_modes |-> (node_id :> mode) @@ subtree_modes]
  ELSE LET done == children_loop(node, node_id, 1, subtree_modes, <<>>)
           mode == pick_mode(done.color_counts, 1, NoMode, 0)
       IN [mode |-> mode, subtree_modes |-> (node_id :> mode) @@ done.subtree_modes]

\* subtree_mode(tree)
subtree_mode(tree) == compute_subtree_mode(tree, <<>>, <<>>).subtree_modes

\* test_suite.py, test_subtree_mode
TestTree ==
  TreeNode(<<TreeNode(<<TreeNode(<<>>, {1}), TreeNode(<<>>, {2}), TreeNode(<<>>, {1})>>, {})>>,
           {})

\* the trees of at most the given depth with at most max_children children per node
RECURSIVE Trees(_, _, _)
Trees(depth, max_children, max_color) ==
  LET leaves == {TreeNode(<<>>, color) : color \in {{}} \cup {{c} : c \in 1..max_color}}
  IN IF depth = 0 THEN leaves
     ELSE leaves \cup
          {TreeNode(children, {}) :
             children \in UNION {[1..n -> Trees(depth - 1, max_children, max_color)] :
                                   n \in 1..max_children}}

InitTree ==
  /\ \E tree \in Trees(MaxDepth, MaxChildren, MaxColor) \cup {TestTree} :
       call = [pc |-> "ready", op |-> "none", tree |-> tree, result |-> <<>>]
  /\ graph = CorrelationClustering(<<>>, <<>>, <<>>)
  /\ run = Idle
  /\ lp = Idle
  /\ store = Idle

\* modes = subtree_mode(tree)
CallSubtreeMode ==
  /\ call.pc = "ready"
  /\ call' = [call EXCEPT !.pc = "returned", !.op = "subtree_mode",
                          !.result = subtree_mode(call.tree)]
  /\ UNCHANGED <<graph, run, lp, store>>

NextTree == CallSubtreeMode

SpecTree == InitTree /\ [][NextTree]_vars

(***************************************************************************)
(* LexicalAnalyzer.tokenize.  A string is the sequence of its characters;   *)
(* position counts from 0 as in the source, so input_str[position] of the   *)
(* source is input_str[position + 1] here.                                  *)
(***************************************************************************)
Letters == {"a", "c", "e", "f", "h", "i", "l", "n", "o", "r", "s", "t", "u", "w", "x"}

Whitespace == {" ", "\n"}

\* char.isspace(), char.isalpha(), char.isdigit(), char.isalnum()
isspace(char) == char \in Whitespace

isalpha(char) == char \in Letters

isdigit(char) == \E k \in DOMAIN Digits : Digits[k] = char

isalnum(char) == isalpha(char) \/ isdigit(char)

\* the list the source tests char against
OperatorsAndPunctuation ==
  {"+", "-", "*", "/", "=", "(", ")", "{", "}", ";", ",", ">", "<"}

\* self.keywords
keywords ==
  { <<"i", "f">>, <<"t", "h", "e", "n">>, <<"e", "l", "s", "e">>,
    <<"w", "h", "i", "l", "e">>, <<"f", "o", "r">>,
    <<"f", "u", "n", "c", "t", "i", "o", "n">>, <<"r", "e", "t", "u", "r", "n">> }

Token(type, value, position) == [type |-> type, value |-> value, position |-> position]

\* while position < len(input_str) and (input_str[position].isalnum() or
\* input_str[position] == '_'): value += input_str[position]; position += 1
RECURSIVE scan_identifier(_, _, _)
scan_identifier(input_str, value, position) ==
  IF position < Len(input_str)
     /\ (isalnum(input_str[position + 1]) \/ input_str[position + 1] = "_")
  THEN scan_identifier(input_str, Append(value, input_str[position + 1]), position + 1)
  ELSE [value |-> value, position |-> position]

\* while position < len(input_str) and input_str[position].isdigit():
\* value += input_str[position]; position += 1
RECURSIVE scan_digits(_, _, _)
scan_digits(input_str, value, position) ==
  IF position < Len(input_str) /\ isdigit(input_str[position + 1])
  THEN scan_digits(input_str, Append(value, input_str[position + 1]), position + 1)
  ELSE [value |-> value, position |-> position]

\* a slip: the token of an identifier is given the position after it
match_identifier_at_end(input_str, position) ==
  LET scan == scan_identifier(input_str, <<input_str[position + 1]>>, position + 1)
      token_type == IF scan.value \in keywords THEN "keyword" ELSE "identifier"
  IN [token |-> Token(token_type, scan.value, scan.position),
      position |-> scan.position]

\* the identifier/keyword branch: the token appended and the position after it
match_identifier(input_str, position) ==
  LET scan == scan_identifier(input_str, <<input_str[position + 1]>>, position + 1)
      token_type == IF scan.value \in keywords THEN "keyword" ELSE "identifier"
  IN [token |-> Token(token_type, scan.value, scan.position - Len(scan.value)),
      position |-> scan.position]

\* the number branch: the token appended and the position after it
match_number(input_str, position) ==
  LET whole == scan_digits(input_str, <<input_str[position + 1]>>, position + 1)
      scan == IF whole.position < Len(input_str) /\ input_str[whole.position + 1] = "."
              THEN scan_digits(input_str, Append(whole.value, "."), whole.position + 1)
              ELSE whole
  IN [token |-> Token("number", scan.value, scan.position - Len(scan.value)),
      position |-> scan.position]

\* test_suite.py: analyzer.tokenize("if x > 5 then return x")
TestInput ==
  << "i", "f", " ", "x", " ", ">", " ", "5", " ", "t", "h", "e", "n", " ",
     "r", "e", "t", "u", "r", "n", " ", "x" >>

\* the characters of the generated inputs: of every class the source tells apart
InputChars == {" ", "+", "i", "f", "_", "1", ".", "#"}

\* the strings of at most max_len characters
InputStrings(max_len) == UNION {[1..n -> InputChars] : n \in 0..max_len}

InitLex ==
  /\ \E input_str \in InputStrings(MaxInputLen) \cup {TestInput} :
       call = [pc |-> "ready", op |-> "none", input_str |-> input_str,
               tokens |-> <<>>, position |-> 0]
  /\ graph = CorrelationClustering(<<>>, <<>>, <<>>)
  /\ run = Idle
  /\ lp = Idle
  /\ store = Idle

\* tokens = analyzer.tokenize(input_str): tokens = [], position = 0
TokenizeStart ==
  /\ call.pc = "ready"
  /\ call' = [call EXCEPT !.pc = "while", !.op = "tokenize", !.tokens = <<>>,
                          !.position = 0]
  /\ UNCHANGED <<graph, run, lp, store>>

\* char = input_str[position] of an iteration of the loop
char == call.input_str[call.position + 1]

InLoop == call.pc = "while" /\ call.position < Len(call.input_str)

\* an iteration that skips whitespace
TokenizeWhitespace ==
  /\ InLoop
  /\ isspace(char)
  /\ call' = [call EXCEPT !.position = call.position + 1]
  /\ UNCHANGED <<graph, run, lp, store>>

\* an iteration that appends an operator token
TokenizeOperator ==
  /\ InLoop
  /\ ~isspace(char)
  /\ char \in OperatorsAndPunctuation
  /\ call' = [call EXCEPT !.tokens = Append(call.tokens, Token("operator", <<char>>, call.position)),
                          !.position = call.position + 1]
  /\ UNCHANGED <<graph, run, lp, store>>

\* an iteration that appends an identifier or keyword token
TokenizeIdentifier ==
  /\ InLoop
  /\ ~isspace(char)
  /\ char \notin OperatorsAndPunctuation
  /\ isalpha(char) \/ char = "_"
  /\ LET match == match_identifier(call.input_str, call.position)
     IN call' = [call EXCEPT !.tokens = Append(call.tokens, match.token),
                             !.position = match.position]
  /\ UNCHANGED <<graph, run, lp, store>>

\* an iteration that appends a number token
TokenizeNumber ==
  /\ InLoop
  /\ ~isspace(char)
  /\ char \notin OperatorsAndPunctuation
  /\ ~(isalpha(char) \/ char = "_")
  /\ isdigit(char)
  /\ LET match == match_number(call.input_str, call.position)
     IN call' = [call EXCEPT !.tokens = Append(call.tokens, match.token),
                             !.position = match.position]
  /\ UNCHANGED <<graph, run, lp, store>>

\* an iteration that appends an unknown token
TokenizeUnknown ==
  /\ InLoop
  /\ ~isspace(char)
  /\ char \notin OperatorsAndPunctuation
  /\ ~(isalpha(char) \/ char = "_")
  /\ ~isdigit(char)
  /\ call' = [call EXCEPT !.tokens = Append(call.tokens, Token("unknown", <<char>>, call.position)),
                          !.position = call.position + 1]
  /\ UNCHANGED <<graph, run, lp, store>>

\* the loop condition fails: return tokens
TokenizeReturn ==
  /\ call.pc = "while"
  /\ ~(call.position < Len(call.input_str))
  /\ call' = [call EXCEPT !.pc = "returned"]
  /\ UNCHANGED <<graph, run, lp, store>>

NextLex ==
  \/ TokenizeStart \/ TokenizeWhitespace \/ TokenizeOperator \/ TokenizeIdentifier
  \/ TokenizeNumber \/ TokenizeUnknown \/ TokenizeReturn

SpecLex == InitLex /\ [][NextLex]_vars

\* a call that has started runs on: the program is single-threaded and nothing
\* can suspend it
FairSpecLex == SpecLex /\ WF_vars(NextLex)

\* the evaluator calls and the searches on one graph object
InitSigned == InitCall \/ InitSearch

NextSigned == NextCall \/ NextSearch

SpecSigned == InitSigned /\ [][NextSigned]_vars

Init == InitCall \/ InitSearch \/ InitLP \/ InitInterpret \/ InitSort \/ InitTimsort \/ InitChain \/ InitProbe \/ InitList \/ InitStream \/ InitTree \/ InitLex
Next == NextCall \/ NextSearch \/ NextLP \/ NextInterpret \/ NextSort \/ NextTimsort \/ NextChain \/ NextProbe \/ NextList \/ NextStream \/ NextTree \/ NextLex
Spec == Init /\ [][Next]_vars

(***************************************************************************)
(* Claims about the mistake evaluator and the validity check.               *)
(***************************************************************************)
\* the undirected edges {u, v} a list of tuples names
UndirectedEdges(edges) == {{edges[k][1], edges[k][2]} : k \in DOMAIN edges}

\* the edges of a list all join two distinct vertices of the vertex list
JoinsDistinctListed(edges, vertices) ==
  \A k \in DOMAIN edges :
    /\ edges[k][1] # edges[k][2]
    /\ edges[k][1] \in Range(vertices)
    /\ edges[k][2] \in Range(vertices)

\* the mistake count by definition: split positive edges plus joined negative edges
ExpectedMistakes(a, c) ==
  Cardinality({e \in UndirectedEdges(a.positive_edges) :
                 \E u, v \in e : c[u] # c[v]})
  + Cardinality({e \in UndirectedEdges(a.negative_edges) :
                 \A u, v \in e : c[u] = c[v]})

C2Applies ==
  /\ JoinsDistinctListed(call.args.positive_edges, call.args.vertices)
  /\ JoinsDistinctListed(call.args.negative_edges, call.args.vertices)
  /\ Range(call.args.vertices) \subseteq DOMAIN call.clustering

\* C2: on a graph whose edges join distinct listed vertices and a clustering that
\* labels every vertex, calculate_mistakes returns the number of positive edges
\* with differently labelled endpoints plus the number of negative edges with
\* equally labelled endpoints, a non-negative integer, and changes neither the
\* clustering argument nor the graph.
C2_CalculateMistakesCounts ==
  [][(call.pc = "ready" /\ call'.op = "calculate_mistakes" /\ C2Applies)
       => /\ call'.pc = "returned"
          /\ call'.result = ExpectedMistakes(call.args, call.clustering)
          /\ call'.result >= 0
          /\ call'.clustering = call.clustering
          /\ graph' = graph]_vars

\* C2 on the graphs none of whose vertex ids is negative: the count is as stated
C2_HoldsForNonNegativeIds ==
  [][(/\ call.pc = "ready" /\ call'.op = "calculate_mistakes" /\ C2Applies
      /\ \A k \in DOMAIN call.args.vertices : call.args.vertices[k] >= 0)
       => /\ call'.pc = "returned"
          /\ call'.result = ExpectedMistakes(call.args, call.clustering)
          /\ call'.result >= 0
          /\ call'.clustering = call.clustering
          /\ graph' = graph]_vars

AllA == [v \in {1, 2, 3} |-> 0]
TwoAOneB == [v \in {1, 2, 3} |-> IF v = 3 THEN 1 ELSE 0]

\* C3 (as claimed): on vertices 1,2,3 with positive edges (1,2),(2,3) and negative
\* edge (1,3), calculate_mistakes returns 1 for {1:A,2:A,3:A} and 0 for {1:A,2:A,3:B}.
C3_ExampleMistakesAsClaimed ==
  (call.op = "calculate_mistakes" /\ call.args = ExampleArgs)
    => /\ call.pc = "returned"
       /\ call.clustering = AllA => call.result = 1
       /\ call.clustering = TwoAOneB => call.result = 0

\* C3 (amended): on that graph calculate_mistakes returns 1 for {1:A,2:A,3:A} (the
\* negative edge (1,3) inside a cluster) and 1 for {1:A,2:A,3:B} (the positive
\* edge (2,3) split across clusters).
C3_ExampleMistakes ==
  (call.op = "calculate_mistakes" /\ call.args = ExampleArgs)
    => /\ call.pc = "returned"
       /\ call.clustering = AllA => call.result = 1
       /\ call.clustering = TwoAOneB => call.result = 1

C3_Witness ==
  /\ call.op = "calculate_mistakes" /\ call.args = ExampleArgs
  /\ call.pc = "returned" /\ call.clustering = TwoAOneB

\* C7: validate_clustering returns true exactly when the clustering's keys are the
\* graph's vertices, whatever labels the clustering uses.
C7_ValidateIffKeysAreVertices ==
  (call.op = "validate_clustering")
    => /\ call.pc = "returned"
       /\ call.result = TRUE <=>
            /\ \A k \in DOMAIN graph.vertices : graph.vertices[k] \in DOMAIN call.clustering
            /\ \A v \in DOMAIN call.clustering : \E k \in DOMAIN graph.vertices : graph.vertices[k] = v
       /\ \A c \in [DOMAIN call.clustering -> Labels] :
            validate_clustering(graph, c) = call.result

C7_Witness ==
  /\ call.op = "validate_clustering" /\ call.pc = "returned"
  /\ call.result = TRUE /\ Len(graph.vertices) >= 2
  /\ \E u, v \in DOMAIN call.clustering : call.clustering[u] # call.clustering[v]

(***************************************************************************)
(* Claims about the local searches.                                         *)
(***************************************************************************)
Searching == run.pc \in {"while", "pair", "candidate", "decide"}
Returned == run.pc = "done"
TestGraph == CorrelationClustering(TestVertices, TestPositive, TestNegative)

\* a step that replaces the accepted clustering
Commit ==
  /\ Searching
  /\ run'.clustering # run.clustering \/ run'.best_clustering # run.best_clustering

\* C1: in a run of either local search the mistake count of the accepted
\* clustering never increases, every commit strictly lowers min_mistakes, and the
\* mistake count returned is at most that of the initial singleton partition.
C1_MistakesNeverIncrease ==
  [][Searching =>
       /\ run'.min_mistakes <= run.min_mistakes
       /\ calculate_mistakes(graph, run'.best_clustering)
            <= calculate_mistakes(graph, run.best_clustering)
       /\ Commit => run'.min_mistakes < run.min_mistakes
       /\ run'.pc = "done" =>
            run'.result.mistakes
              <= calculate_mistakes(graph, [v \in Range(graph.vertices) |-> v])]_vars

\* a search that returned after at least two commits
C1_Witness ==
  /\ Returned
  /\ run.result.mistakes + 2 <= calculate_mistakes(graph, [v \in Range(graph.vertices) |-> v])
  /\ get_cluster_count(run.result.clustering) + 2 <= Len(graph.vertices)

LabelsOf(clustering) == {clustering[v] : v \in DOMAIN clustering}

\* C4: the clustering either search returns is a local optimum for whole-cluster
\* merges (relabelling all of A to B, for distinct labels A, B in use, never gives
\* fewer mistakes than the returned count), and the cluster-merge search does not
\* leave its loop on the iteration cap with an improvement flagged.
C4_ReturnedIsLocalOptimum ==
  Returned =>
    /\ \A A, B \in LabelsOf(run.result.clustering) :
         A # B =>
           calculate_mistakes(graph,
              [v \in DOMAIN run.result.clustering |->
                 IF run.result.clustering[v] = A THEN B ELSE run.result.clustering[v]])
             >= run.result.mistakes
    /\ (run.algo = "greedy" /\ Len(graph.vertices) >= 1) => ~run.improved

\* a cluster-merge search that returned a clustering of several clusters after a commit
C4_Witness ==
  /\ Returned /\ run.algo = "greedy"
  /\ Cardinality(LabelsOf(run.result.clustering)) >= 2
  /\ run.result.clustering # [v \in Range(graph.vertices) |-> v]

\* the candidates still to be tried in the current pass over the pairs, this one included
PairsLeft ==
  IF run.algo = "greedy"
  THEN LET n == Len(run.current_clusters)
       IN (n - run.j) + ((n - 1 - run.i) * (n - 2 - run.i)) \div 2
  ELSE LET n == Len(graph.vertices)
       IN (n - run.u) * n + (n - run.v) + 1

\* the steps left in the current pass
StepsLeft ==
  CASE run.pc = "pair" -> 3 * PairsLeft + 1
    [] run.pc = "candidate" -> 3 * PairsLeft
    [] run.pc = "decide" -> 3 * PairsLeft - 1
    [] run.pc = "while" -> 1
    [] OTHER -> 0

PassLength == 3 * (Len(graph.vertices) * Len(graph.vertices) + 1)

\* a variant of the search: the mistake count to beat, then whether another pass
\* is due, then the steps left in this pass
Variant ==
  (run.min_mistakes * 2
     + (IF (run.algo = "greedy" /\ run.improved) \/ (run.algo = "simple" /\ run.changed)
        THEN 1 ELSE 0)) * PassLength
  + StepsLeft

\* C5: both local searches terminate on every signed graph: a run stops only by
\* returning, every step before that lowers a non-negative variant (so a pass
\* without an improving move is reached), and the cluster-merge search runs at
\* most |V|^2 rounds of its while loop.
C5_SearchReturns ==
  /\ [](run.pc = "done" \/ ENABLED NextSearch)
  /\ [][Searching => (Variant' < Variant /\ Variant' >= 0)]_vars
  /\ [](run.algo = "greedy" =>
          run.iterations <= Len(graph.vertices) * Len(graph.vertices))

\* C5 short of the return: a run stops only by returning or by the ValueError of
\* calculate_mistakes, and until then every step lowers the variant within the
\* round bound
C5_SearchEnds ==
  /\ [](run.pc \in {"done", "raised"} \/ ENABLED NextSearch)
  /\ [][Searching => (Variant' < Variant /\ Variant' >= 0)]_vars
  /\ [](run.algo = "greedy" =>
          run.iterations <= Len(graph.vertices) * Len(graph.vertices))

\* C6: on a non-empty vertex list the map returned by the cluster-merge search
\* labels exactly the graph's vertices and its cluster_count is in 1..|V|; on the
\* test-suite graph the singleton partition has 3 mistakes, the returned count is
\* at most 3 and the cluster count is in 1..5.
C6_GreedyResultIsValid ==
  /\ (Returned /\ run.algo = "greedy" /\ Len(graph.vertices) >= 1) =>
       /\ validate_clustering(graph, run.result.clustering)
       /\ DOMAIN run.result.clustering = Range(graph.vertices)
       /\ run.result.cluster_count >= 1
       /\ run.result.cluster_count <= Len(graph.vertices)
  /\ (graph = TestGraph /\ run.algo = "greedy" /\ run.pc # "ready") =>
       /\ run.pc # "raised"
       /\ calculate_mistakes(graph, [v \in Range(graph.vertices) |-> v]) = 3
       /\ Returned => /\ run.result.mistakes <= 3
                      /\ run.result.cluster_count \in 1..5

C6_Witness == Returned /\ run.algo = "greedy" /\ graph = TestGraph

\* C8: the cluster_count either search returns is the number of distinct labels of
\* the returned map, and is not zero when the vertex list is not empty.
C8_ClusterCountIsLabelCount ==
  Returned =>
    /\ \E L \in SUBSET Range(graph.vertices) :
         /\ Cardinality(L) = run.result.cluster_count
         /\ \A v \in DOMAIN run.result.clustering : run.result.clustering[v] \in L
         /\ \A l \in L : \E v \in DOMAIN run.result.clustering : run.result.clustering[v] = l
    /\ Len(graph.vertices) >= 1 => run.result.cluster_count # 0

\* a vertex-pair search that returned fewer clusters than vertices
C8_Witness ==
  /\ Returned /\ run.algo = "simple"
  /\ run.result.cluster_count >= 1
  /\ run.result.cluster_count < Len(graph.vertices)

(***************************************************************************)
(* Claims about formulate_lp                                                *)
(***************************************************************************)
Formulated == lp.pc = "formulated"

\* the variables (columns, counted from 1) created for the pair {u, v}, in either
\* orientation and from either list
Columns(self, u, v) ==
  {p \in DOMAIN lp_edges(self) : lp_edges(self)[p] \in {<<u, v>>, <<v, u>>}}

\* the unordered triples of distinct listed vertices whose three pairs all have a variable
JoinedTriples(self) ==
  {T \in SUBSET Range(self.vertices) :
     /\ Cardinality(T) = 3
     /\ \A u, v \in T : u # v => Columns(self, u, v) # {}}

AllTriples(self) == {T \in SUBSET Range(self.vertices) : Cardinality(T) = 3}

\* the row with +1 in column plus, -1 in columns m1 and m2, 0 elsewhere
TriangleRow(self, plus, m1, m2) ==
  [c \in DOMAIN lp_edges(self) |-> IF c = plus THEN 1 ELSE IF c \in {m1, m2} THEN 0 - 1 ELSE 0]

\* the rows of triple T are among the emitted rows
RowsOfTripleEmitted(self, rows, T) ==
  \E a, b, c \in T :
    /\ T = {a, b, c}
    /\ \E ab \in Columns(self, a, b), ac \in Columns(self, a, c), bc \in Columns(self, b, c) :
         /\ TriangleRow(self, ab, ac, bc) \in Range(rows)
         /\ TriangleRow(self, ac, ab, bc) \in Range(rows)
         /\ TriangleRow(self, bc, ab, ac) \in Range(rows)

\* row is a triangle row of some joined triple
RowOfSomeTriple(self, row) ==
  \E T \in JoinedTriples(self) : \E a, b, c \in T :
    /\ T = {a, b, c}
    /\ \E ab \in Columns(self, a, b), ac \in Columns(self, a, c), bc \in Columns(self, b, c) :
         row = TriangleRow(self, ab, ac, bc)

TriangleRowsComplete(self, rows) ==
  /\ Len(rows) = 3 * Cardinality(JoinedTriples(self))
  /\ \A T \in JoinedTriples(self) : RowsOfTripleEmitted(self, rows, T)
  /\ \A r \in DOMAIN rows : RowOfSomeTriple(self, rows[r])

\* C9: formulate_lp emits the three triangle rows of every unordered triple of distinct
\* vertices whose three pairs all have an edge variable, whatever the order and orientation
\* of the edge lists: the number of rows is 3 times the number of such triples, and every
\* row has +1 in one of a triple's columns, -1 in the other two and 0 elsewhere.
C9_TriangleRowsForEveryJoinedTriple ==
  Formulated => TriangleRowsComplete(lp.self, lp.formulation.constraint_coefficients)

\* some pair of listed vertices, taken in list order, has its only variable at index 0
IndexZeroLookedUp(self) ==
  \E i, j \in DOMAIN self.vertices :
    /\ i < j
    /\ lp_key(self.vertices[i], self.vertices[j]) \in DOMAIN edge_variable_index(self)
    /\ edge_variable_index(self)[lp_key(self.vertices[i], self.vertices[j])] = 0
    /\ lp_key(self.vertices[j], self.vertices[i]) \notin DOMAIN edge_variable_index(self)

\* C9 holds for every graph in which no pair looked up in list order resolves to index 0 alone
C9_HoldsUnlessIndexZeroLookedUp ==
  (Formulated /\ ~IndexZeroLookedUp(lp.self))
    => TriangleRowsComplete(lp.self, lp.formulation.constraint_coefficients)

\* C10: the number of rows is at most 3*C(|V|,3) and is 0 when no three vertices are
\* pairwise joined by edge variables; constraint_coefficients, rhs and constraint_types
\* have the same length, every rhs entry is 0 and every constraint type is "<=".
C10_RowCountBounded ==
  Formulated =>
    LET f == lp.formulation
    IN /\ Len(f.constraint_coefficients) <= 3 * Cardinality(AllTriples(lp.self))
       /\ JoinedTriples(lp.self) = {} => Len(f.constraint_coefficients) = 0
       /\ Len(f.rhs) = Len(f.constraint_coefficients)
       /\ Len(f.constraint_types) = Len(f.constraint_coefficients)
       /\ \A r \in DOMAIN f.rhs : f.rhs[r] = 0
       /\ \A r \in DOMAIN f.constraint_types : f.constraint_types[r] = "<="

\* a formulated LP whose row count attains the bound 3*C(|V|,3) with at least one triple,
\* and whose edges were not all listed in vertex-list orientation
C10_Witness ==
  /\ Formulated
  /\ Len(lp.formulation.constraint_coefficients) > 0
  /\ Len(lp.formulation.constraint_coefficients) = 3 * Cardinality(AllTriples(lp.self))
  /\ Len(lp.formulation.rhs) = Len(lp.formulation.constraint_coefficients)

\* no pair is listed twice (in either orientation) and no pair is in both lists
EdgesListedOnce(self) ==
  \A p, q \in DOMAIN lp_edges(self) :
    p # q => {lp_edges(self)[p][1], lp_edges(self)[p][2]}
               # {lp_edges(self)[q][1], lp_edges(self)[q][2]}

\* C11: for edge lists with no pair listed twice and no pair in both lists, formulate_lp
\* creates exactly one variable per edge: variable_names, objective_coefficients and
\* variable_bounds have |positive_edges| + |negative_edges| entries, the names are pairwise
\* different, the coefficient is +1 for a positive and -1 for a negative edge, every bound
\* is [0,1] and every constraint row has that many columns.
C11_OneVariablePerEdge ==
  (Formulated /\ EdgesListedOnce(lp.self)) =>
    LET f == lp.formulation
        n == Len(lp.self.positive_edges) + Len(lp.self.negative_edges)
    IN /\ Len(f.variable_names) = n
       /\ Len(f.objective_coefficients) = n
       /\ Len(f.variable_bounds) = n
       /\ \A p, q \in 1..n : p # q => f.variable_names[p] # f.variable_names[q]
       /\ \A p \in 1..n :
            /\ f.objective_coefficients[p]
                 = (IF p <= Len(lp.self.positive_edges) THEN 1 ELSE 0 - 1)
            /\ f.variable_names[p]
                 = variable_name((lp.self.positive_edges \o lp.self.negative_edges)[p][1],
                                 (lp.self.positive_edges \o lp.self.negative_edges)[p][2])
            /\ f.variable_bounds[p] = [min |-> 0, max |-> 1]
       /\ \A r \in DOMAIN f.constraint_coefficients : Len(f.constraint_coefficients[r]) = n

\* a formulated LP with edges of both signs, each pair listed once, and constraint rows
C11_Witness ==
  /\ Formulated
  /\ EdgesListedOnce(lp.self)
  /\ Len(lp.self.positive_edges) > 0
  /\ Len(lp.self.negative_edges) > 0
  /\ Len(lp.formulation.constraint_coefficients) > 0
  /\ Len(lp.formulation.variable_names) = 3

(***************************************************************************)
(* Claims about interpret_solution                                          *)
(***************************************************************************)
Interpreting == lp.pc \in {"vertex", "other"}
Interpreted == lp.pc = "done"

\* C12: when a cluster is opened for a pivot, only vertices still unassigned are added to
\* it: once a vertex has a cluster id, no later step of interpret_solution changes it.
C12_AssignedIdNeverChanges ==
  [][Interpreting =>
       \A vertex \in DOMAIN lp.clustering :
         /\ vertex \in DOMAIN lp'.clustering
         /\ lp'.clustering[vertex] = lp.clustering[vertex]]_vars

\* C13: interpret_solution labels every vertex, cluster ids are handed out in sequence from
\* 0, the labels of the returned clustering are exactly 0..k-1 for k opened clusters, and
\* with the all-0.5 solution of solve_lp every vertex is alone in its cluster.
C13_LabelsAreSequential ==
  Interpreted =>
    /\ DOMAIN lp.clustering = Range(lp.self.vertices)
    /\ {lp.clustering[vertex] : vertex \in DOMAIN lp.clustering} = 0..(lp.cluster_id - 1)
    /\ lp.solved =>
         \A u, v \in DOMAIN lp.clustering : u # v => lp.clustering[u] # lp.clustering[v]

\* no name and its reverse both occur in the solution map
OneNamePerPair(lp_solution) ==
  \A u, v \in LPIds :
    u # v => ~(variable_name(u, v) \in DOMAIN lp_solution
               /\ variable_name(v, u) \in DOMAIN lp_solution)

\* C13 holds for the placeholder's solution and for every solution map that names each pair
\* in one orientation only
C13_HoldsForOneNamePerPair ==
  (Interpreted /\ (lp.solved \/ OneNamePerPair(lp.lp_solution))) =>
    /\ DOMAIN lp.clustering = Range(lp.self.vertices)
    /\ {lp.clustering[vertex] : vertex \in DOMAIN lp.clustering} = 0..(lp.cluster_id - 1)
    /\ lp.solved =>
         \A u, v \in DOMAIN lp.clustering : u # v => lp.clustering[u] # lp.clustering[v]

(***************************************************************************)
(* Claims about edge identity, construction and missing entries             *)
(***************************************************************************)
\* the lists that name the tuples of edges in any orientation
RECURSIVE Reoriented(_)
Reoriented(edges) ==
  IF edges = <<>> THEN {<<>>}
  ELSE {<<e>> \o rest : e \in {edges[1], <<edges[1][2], edges[1][1]>>},
                        rest \in Reoriented(Tail(edges))}

\* the lists that name the same pairs as edges: any orientation, one tuple possibly repeated
SamePairs(edges) ==
  UNION {Reoriented(x) : x \in {edges} \cup {edges \o <<edges[k]>> : k \in DOMAIN edges}}

\* C14: edge identity is canonical and deduplicated: listing (u,v) or (v,u), or a pair
\* several times, yields the same positive_edges and negative_edges sets, hence the same
\* get_graph_stats and the same calculate_mistakes outcome.
C14_EdgeIdentityIsCanonical ==
  \A positive_edges \in SamePairs(call.args.positive_edges),
     negative_edges \in SamePairs(call.args.negative_edges) :
    LET other == CorrelationClustering(call.args.vertices, positive_edges, negative_edges)
    IN /\ other.positive_edges = graph.positive_edges
       /\ other.negative_edges = graph.negative_edges
       /\ other = graph
       /\ (call.pc = "returned" /\ call.op = "get_graph_stats")
            => call.result = get_graph_stats(other)
       /\ (call.pc = "returned" /\ call.op = "calculate_mistakes")
            => /\ ~calculate_mistakes_raises(other)
               /\ call.result = calculate_mistakes(other, call.clustering)
       /\ (call.pc = "raised") => calculate_mistakes_raises(other)

\* a graph built from a pair listed in both orientations, whose statistics count it once
C14_Witness ==
  /\ call.pc = "returned"
  /\ call.op = "get_graph_stats"
  /\ Len(call.args.positive_edges) = 2
  /\ call.args.positive_edges[1][1] > call.args.positive_edges[1][2]
  /\ call.args.positive_edges[2] = <<call.args.positive_edges[1][2], call.args.positive_edges[1][1]>>
  /\ call.result.positive_edge_count = 1
  /\ call.result.total_edge_count = 1

\* some listed edge has an endpoint that is not in the vertex list
HasUnlistedEndpoint(a) ==
  \E e \in UndirectedEdges(a.positive_edges) \cup UndirectedEdges(a.negative_edges) :
    ~(e \subseteq Range(a.vertices))

\* C16: constructing a graph with an edge whose endpoint is not in the vertex list is
\* refused at construction, so no mistake count is ever computed on such a graph.
C16_UnlistedEndpointIsRefused ==
  HasUnlistedEndpoint(call.args) => ~(call.pc = "returned" /\ call.op = "calculate_mistakes")

\* the mistake count when a vertex without an entry has no cluster, equal to no label
MistakesWithMissing(a, c) ==
  Cardinality({e \in UndirectedEdges(a.positive_edges) :
                 \/ ~(e \subseteq DOMAIN c)
                 \/ \E u, v \in e : c[u] # c[v]})
  + Cardinality({e \in UndirectedEdges(a.negative_edges) :
                 /\ e \subseteq DOMAIN c
                 /\ \A u, v \in e : c[u] = c[v]})

\* C17: in calculate_mistakes a vertex with no entry in the clustering has no cluster: a
\* negative edge with a missing endpoint contributes 0 and a positive edge with a missing
\* endpoint contributes 1, also when both endpoints are missing.
C17_MissingEndpointNeverEqual ==
  (call.pc = "returned" /\ call.op = "calculate_mistakes")
    => call.result = MistakesWithMissing(call.args, call.clustering)

\* C17 on the calls in which every edge has at least one endpoint with an entry
C17_HoldsWithOneEndpointPresent ==
  (/\ call.pc = "returned" /\ call.op = "calculate_mistakes"
   /\ \A e \in UndirectedEdges(call.args.positive_edges)
                 \cup UndirectedEdges(call.args.negative_edges) :
        e \cap DOMAIN call.clustering # {})
    => call.result = MistakesWithMissing(call.args, call.clustering)

(***************************************************************************)
(* Claims about degenerate graphs, the grouped view and candidate frames    *)
(***************************************************************************)
\* C15: on a graph with fewer than 2 vertices both searches return, without error, the
\* singleton clustering with a mistake count of 0.
C15_DegenerateGraphReturnsSingleton ==
  Len(graph.vertices) < 2 =>
    /\ run.pc # "raised"
    /\ Returned => /\ run.result.clustering = singleton_clustering(graph)
                   /\ run.result.mistakes = 0

\* C15 on the graphs with fewer than 2 vertices and no edge
C15_HoldsWithoutEdges ==
  (Len(graph.vertices) < 2 /\ graph.positive_edges = {} /\ graph.negative_edges = {}) =>
    /\ run.pc # "raised"
    /\ Returned => /\ run.result.clustering = singleton_clustering(graph)
                   /\ run.result.mistakes = 0

Grouped == call.pc = "returned" /\ call.op = "get_clusters_as_arrays"

GroupsAreMembers ==
  /\ DOMAIN call.result = LabelsOf(run.result.clustering)
  /\ \A cluster_id \in DOMAIN call.result :
       /\ Range(call.result[cluster_id])
            = {vertex \in DOMAIN run.result.clustering :
                 run.result.clustering[vertex] = cluster_id}
       /\ Len(call.result[cluster_id]) = Cardinality(Range(call.result[cluster_id]))

GroupsAreAscending ==
  \A cluster_id \in DOMAIN call.result :
    \A a, b \in DOMAIN call.result[cluster_id] :
      a < b => call.result[cluster_id][a] < call.result[cluster_id][b]

\* C18: get_clusters_as_arrays maps each label in use to the list of exactly the vertices
\* carrying it, each list sorted by ascending vertex id, for every order of the vertex list.
C18_GroupedViewIsSorted ==
  Grouped => (GroupsAreMembers /\ GroupsAreAscending)

\* C18 without the order of the members, and with it when the vertex list is ascending
C18_HoldsForAscendingVertexList ==
  Grouped =>
    /\ GroupsAreMembers
    /\ (\A a, b \in DOMAIN graph.vertices : a < b => graph.vertices[a] < graph.vertices[b])
         => GroupsAreAscending

\* C19: building and evaluating a candidate changes neither the working clustering nor
\* best_clustering; a candidate that is not strictly better leaves clustering,
\* best_clustering and min_mistakes unchanged; whenever a candidate is about to be evaluated
\* and at return, best_clustering equals the working clustering and min_mistakes is its
\* mistake count, so the returned mistakes field is the recomputed count of the returned map.
C19_CandidateLeavesWorkingClustering ==
  /\ [][run.pc = "candidate" =>
          /\ run'.clustering = run.clustering
          /\ run'.best_clustering = run.best_clustering
          /\ run'.min_mistakes = run.min_mistakes]_vars
  /\ [][(run.pc = "decide" /\ run.test_mistakes >= run.min_mistakes) =>
          /\ run'.clustering = run.clustering
          /\ run'.best_clustering = run.best_clustering
          /\ run'.min_mistakes = run.min_mistakes]_vars
  /\ [](run.pc \in {"candidate", "done"} =>
          /\ run.best_clustering = run.clustering
          /\ run.min_mistakes = calculate_mistakes(graph, run.clustering))
  /\ [](Returned =>
          /\ run.result.clustering = run.best_clustering
          /\ run.result.mistakes = calculate_mistakes(graph, run.result.clustering))

\* a candidate of the test-suite graph that is not strictly better is about to be decided,
\* after an earlier candidate was committed
C19_Witness ==
  /\ graph = TestGraph
  /\ run.pc = "decide"
  /\ run.test_mistakes >= run.min_mistakes
  /\ run.clustering # singleton_clustering(graph)
  /\ run.test_clustering # run.clustering

(***************************************************************************)
(* Claims about the comparison sorts                                        *)
(***************************************************************************)
\* how often value occurs in the list arr
Occurrences(arr, value) == Cardinality({k \in DOMAIN arr : arr[k] = value})

\* result is the ascending arrangement of the elements of arr
SortedPermutation(arr, result) ==
  /\ Len(result) = Len(arr)
  /\ \A value \in Range(arr) \cup Range(result) :
       Occurrences(result, value) = Occurrences(arr, value)
  /\ \A a, b \in DOMAIN result : a < b => result[a] <= result[b]

\* C20: for every list of integers (empty, single-element and with duplicates included)
\* each of bubble_sort, selection_sort, insertion_sort, merge_sort, quick_sort and heap_sort
\* returns the ascending-sorted permutation of its input, is_sorted holds of it, and the
\* input list is left unmodified for the next sort.
C20_SortsReturnSortedPermutation ==
  /\ call.pc \in {"returned", "checked"} =>
       /\ call.op \in SortNames
       /\ SortedPermutation(call.given, call.result)
       /\ is_sorted(call.result)
       /\ call.arr = call.given
  /\ call.pc = "checked" => call.sorted

\* heap_sort has sorted a list with a duplicate that quick_sort was given before it
C20_Witness ==
  /\ call.pc = "checked"
  /\ call.previous = "quick_sort"
  /\ call.op = "heap_sort"
  /\ call.given = <<1, 0 - 1, 1, 0>>
  /\ call.result = <<0 - 1, 0, 1, 1>>
  /\ call.sorted

(***************************************************************************)
(* Claims about timsort                                                     *)
(***************************************************************************)
\* C26: for every list of integers, the empty list included, timsort returns without error
\* the ascending-sorted permutation of its input and leaves the input unmodified.
C26_TimsortReturnsSortedPermutation ==
  (call.pc # "ready" /\ call.op = "timsort") =>
    /\ call.pc = "returned"
    /\ SortedPermutation(call.given, call.result)
    /\ call.arr = call.given

\* C26 on the lists that are not empty
C26_HoldsForNonEmptyLists ==
  (call.pc # "ready" /\ call.op = "timsort" /\ call.given # <<>>) =>
    /\ call.pc = "returned"
    /\ SortedPermutation(call.given, call.result)
    /\ call.arr = call.given


(***************************************************************************)
(* Claims about the commits of the cluster-merge search                     *)
(***************************************************************************)
\* the pair of labels the cluster-merge search is deciding on
cluster_a_tried == run.current_clusters[run.i + 1]
cluster_b_tried == run.current_clusters[run.j + 1]

\* one of the two labels has been merged away since the label list was computed
StalePair ==
  \/ cluster_a_tried \notin LabelsOf(run.clustering)
  \/ cluster_b_tried \notin LabelsOf(run.clustering)

GreedyDeciding == run.algo = "greedy" /\ run.pc = "decide"

DoublySigned(self) ==
  {key \in self.positive_edges \cap self.negative_edges :
     \E u, v \in Range(self.vertices) : u # v /\ key = edge_key(u, v)}

\* the pairs a call's argument lists name with both signs, between distinct listed vertices
DoublySignedPairs(a) ==
  {e \in UndirectedEdges(a.positive_edges) \cap UndirectedEdges(a.negative_edges) :
     Cardinality(e) = 2 /\ e \subseteq Range(a.vertices)}

stored_keys(self) ==
  [k \in DOMAIN all_pairs(self.buckets, 0) |-> all_pairs(self.buckets, 0)[k].key]

\* the table answers as the dict d does on the given keys
BehavesAsMapOn(self, d, keys) ==
  /\ \A key \in keys :
       /\ HashTable_has(self, key) <=> dict_has(d, key)
       /\ dict_has(d, key) =>
            /\ ~HashTable_get(self, key).raised
            /\ HashTable_get(self, key).value = dict_get(d, key)
       /\ ~dict_has(d, key) =>
            /\ HashTable_get(self, key).raised
            /\ HashTable_remove(self, key).raised
            /\ HashTable_remove(self, key).self = self
  /\ HashTable_size(self) = Cardinality(d)
  /\ \A a, b \in DOMAIN stored_keys(self) :
       a # b => ~py_eq(stored_keys(self)[a], stored_keys(self)[b])

ChainCalled == call.op \in {"put", "remove", "get"} /\ "expected" \in DOMAIN call

\* C21: after any sequence of put and remove calls on a chaining HashTable, resizes
\* included, the table behaves as a map: get(k) returns the value of the latest put(k) not
\* followed by remove(k), has(k) is true exactly for such keys, size() is their number, no
\* key is stored twice, and get or remove of an absent key raises KeyError and leaves the
\* table unchanged.
C21_TableBehavesAsMap ==
  ChainCalled => BehavesAsMapOn(store, call.expected, TableKeys(MaxKey))

\* the keys that are ints or strs: two of them are equal only if their texts are equal
PlainKeys == {key \in TableKeys(MaxKey) : key.type # "float"}

\* C21 on the ints and strs: a call with such a key on a table that stores only such keys
\* and behaves as the map on them leaves a table that behaves as the map on them
C21_HoldsForPlainKeys ==
  [][(/\ "expected" \in DOMAIN call
      /\ "expected" \in DOMAIN call'
      /\ call'.key \in PlainKeys
      /\ Range(stored_keys(store)) \subseteq PlainKeys
      /\ BehavesAsMapOn(store, call.expected, PlainKeys))
       => BehavesAsMapOn(store', call'.expected, PlainKeys)]_vars

(***************************************************************************)
(* Claims about the LinearProbingHashTable                                  *)
(***************************************************************************)
ProbeCalled == call.op \in {"put", "remove", "get", "has"} /\ "removed" \in DOMAIN call

\* C29: every put, get, has and remove call on a LinearProbingHashTable of any initial
\* capacity >= 1 terminates: the probe loop of _find_position reaches the searched key or
\* a slot that is empty and not marked deleted.
C29_ProbeLoopTerminates ==
  ProbeCalled => call.pc # "hung"

\* some slot holds no key and is not marked deleted
HasFreeSlot(self) ==
  \E index \in 1..self.capacity : self.keys[index] = None /\ ~self.deleted[index]

\* C29 on the tables that have a free slot: the call terminates
C29_HoldsWhileASlotIsFree ==
  [][("removed" \in DOMAIN call /\ HasFreeSlot(store)) => call'.pc # "hung"]_vars

\* C30: after remove(k) succeeded, until the next put(k): has(k) is false, get(k) raises
\* KeyError and k is not in keys(), across later puts and removes and the resizes they
\* trigger, which complete without error; and size() is the number of keys for which
\* has() is true.
C30_RemovedKeyStaysRemoved ==
  ProbeCalled =>
    /\ call.outcome # "IndexError"
    /\ \A key \in call.removed :
         /\ ~LinearProbing_has(store, key).value
         /\ LinearProbing_get(store, key).outcome # "returned"
         /\ key \notin LinearProbing_keys(store)
    /\ LinearProbing_size(store)
         = Cardinality({key \in ProbeKeys(MaxProbeKey) : LinearProbing_has(store, key).value})

\* C30 on the tables that still have their initial capacity of 1 or DefaultCapacity + 1
\* (no resize of the model gives a table one of these capacities)
C30_HoldsBeforeAnyResize ==
  (ProbeCalled /\ store.capacity \in {1, DefaultCapacity + 1}) =>
    /\ call.outcome # "IndexError"
    /\ \A key \in call.removed :
         /\ ~LinearProbing_has(store, key).value
         /\ LinearProbing_get(store, key).outcome # "returned"
         /\ key \notin LinearProbing_keys(store)
    /\ LinearProbing_size(store)
         = Cardinality({key \in ProbeKeys(MaxProbeKey) : LinearProbing_has(store, key).value})


(***************************************************************************)
(* Claims about the LinkedList                                              *)
(***************************************************************************)
\* the last node reachable from head, Null for the empty list
RECURSIVE last_node(_, _, _)
last_node(nodes, current, seen) ==
  IF current = Null \/ current \in seen THEN Null
  ELSE IF nodes[current].next = Null THEN current
  ELSE last_node(nodes, nodes[current].next, seen \cup {current})

ListCalled == "expected" \in DOMAIN call /\ "nodes" \in DOMAIN store

\* C22: after any sequence of prepend, append, insert_at, remove_at and reverse calls on a
\* LinkedList, to_list() is the ordinary list the same calls give, size() is its length,
\* tail is the last node reachable from head (None when empty), and insert_at, remove_at
\* or get with an index out of range raises IndexError and leaves the list unchanged.
C22_ListBehavesAsOrdinaryList ==
  /\ [](ListCalled =>
          /\ ~to_list(store).hangs
          /\ to_list(store).result = call.expected
          /\ LinkedList_size(store) = Len(call.expected)
          /\ store.tail = last_node(store.nodes, store.head, {})
          /\ (store.head = Null) = (call.expected = <<>>))
  /\ [][(ListCalled /\ call'.op \in {"insert_at", "remove_at", "get"}) =>
          /\ (call'.pc = "raised") =
               (\/ call'.index < 0
                \/ call'.index > Len(call.expected)
                \/ (call'.op # "insert_at" /\ call'.index = Len(call.expected)))
          /\ call'.pc = "raised" => store' = store
          /\ (call'.pc = "returned" /\ call'.op # "insert_at") =>
               call'.value = call.expected[call'.index + 1]]_vars

\* the last node was removed from a list whose nodes are linked against the order in which
\* they were made (after a prepend or a reverse), and two nodes with different data remain
C22_Witness ==
  /\ ListCalled
  /\ call.op = "remove_at" /\ call.pc = "returned"
  /\ call.index = Len(call.expected) /\ call.index >= 2
  /\ store.nodes[store.head].data # store.nodes[store.tail].data
  /\ \E a, b \in DOMAIN store.nodes : a > b /\ store.nodes[a].next = b

(***************************************************************************)
(* Claims about the streaming estimator                                     *)
(***************************************************************************)
\* the sum of the deltas that the first j updates add to item i
RECURSIVE DeltaSum(_, _, _)
DeltaSum(updates, j, i) ==
  IF j = 0 THEN 0
  ELSE DeltaSum(updates, j - 1, i)
       + (IF updates[j].item_index = i THEN updates[j].delta ELSE 0)

\* the frequency vector after the first min(len(updates), m) updates
FinalVector(a) ==
  [i \in 1..a.n |-> DeltaSum(a.updates, Min(Len(a.updates), a.m), i)]

StreamCalled == call.pc # "ready" /\ call.op = "oblivious_streaming_algorithm"

\* C23: for every call of oblivious_streaming_algorithm with alpha >= 2, epsilon >= 0,
\* n > 0, m > 0 and f non-negative on the final frequency vector, the result is not None
\* and equals f(v) for the frequency vector v after the first min(len(updates), m) updates;
\* None is returned only when alpha < 2.
C23_ResultIsExactValue ==
  StreamCalled =>
    /\ (/\ call.args.alpha >= MinAlpha /\ call.args.epsilon >= 0
        /\ call.args.n > 0 /\ call.args.m > 0
        /\ apply(call.args.f, FinalVector(call.args)) >= 0) =>
         /\ call.pc = "returned"
         /\ ~call.result.none
         /\ call.result.value = apply(call.args.f, FinalVector(call.args))
    /\ (call.pc = "returned" /\ call.result.none) => call.args.alpha < MinAlpha

\* C23 on the calls with epsilon > 0 and f positive on the final frequency vector
C23_HoldsForPositiveEpsilonAndValue ==
  StreamCalled =>
    /\ (/\ call.args.alpha >= MinAlpha /\ call.args.epsilon > 0
        /\ call.args.n > 0 /\ call.args.m > 0
        /\ apply(call.args.f, FinalVector(call.args)) > 0) =>
         /\ call.pc = "returned"
         /\ ~call.result.none
         /\ call.result.value = apply(call.args.f, FinalVector(call.args))
    /\ (/\ call.pc = "returned" /\ call.result.none
        /\ call.args.n > 0
        /\ call.args.epsilon > 0
        /\ apply(call.args.f, FinalVector(call.args)) > 0) => call.args.alpha < MinAlpha

(***************************************************************************)
(* Claims about subtree_mode                                                *)
(***************************************************************************)
\* the ids of the nodes of the tree below (and with) the node with the given id
RECURSIVE NodeIds(_, _)
NodeIds(node, node_id) ==
  {node_id} \cup UNION {NodeIds(node.children[k], Append(node_id, k)) :
                          k \in DOMAIN node.children}

\* the node with the given id
RECURSIVE NodeAt(_, _)
NodeAt(node, node_id) ==
  IF node_id = <<>> THEN node ELSE NodeAt(node.children[Head(node_id)], Tail(node_id))

\* the number of leaves of colour c in the subtree of the node
RECURSIVE LeafCount(_, _)
LeafCount(node, c) ==
  IF node.children = <<>> THEN (IF node.color = {c} THEN 1 ELSE 0)
  ELSE LET RECURSIVE sum(_)
           sum(k) == IF k = 0 THEN 0 ELSE sum(k - 1) + LeafCount(node.children[k], c)
       IN sum(Len(node.children))

\* every leaf of the subtree has a colour
RECURSIVE AllColoured(_)
AllColoured(node) ==
  IF node.children = <<>> THEN node.color # {}
  ELSE \A k \in DOMAIN node.children : AllColoured(node.children[k])

\* c is a most frequent colour among the leaves of the subtree
MostFrequent(node, c) ==
  /\ LeafCount(node, c) >= 1
  /\ \A other \in 1..MaxColor : LeafCount(node, other) <= LeafCount(node, c)

TreeCalled == call.pc = "returned" /\ call.op = "subtree_mode"

\* C24: for every tree subtree_mode returns a map with one entry per node of the tree, and
\* the value for each node is a most frequent colour among the leaves of the node's subtree.
C24_ModeIsMostFrequentLeafColour ==
  (TreeCalled /\ AllColoured(call.tree)) =>
    /\ DOMAIN call.result = NodeIds(call.tree, <<>>)
    /\ \A node_id \in NodeIds(call.tree, <<>>) :
         MostFrequent(NodeAt(call.tree, node_id), call.result[node_id])

\* every inner node has only leaves as children
LeavesBelowInnerNodes(node) ==
  \A k \in DOMAIN node.children : node.children[k].children = <<>>

\* C24 on the trees of one level: a root whose children are all leaves
C24_HoldsForOneLevel ==
  (TreeCalled /\ AllColoured(call.tree) /\ LeavesBelowInnerNodes(call.tree)) =>
    /\ DOMAIN call.result = NodeIds(call.tree, <<>>)
    /\ \A node_id \in NodeIds(call.tree, <<>>) :
         MostFrequent(NodeAt(call.tree, node_id), call.result[node_id])

(***************************************************************************)
(* Claims about LexicalAnalyzer.tokenize                                    *)
(***************************************************************************)
\* the characters of the input from position start (counted from 0) up to end
substring(input_str, start, end) == SubSeq(input_str, start + 1, end)

\* the position after the last character of the token
token_end(token) == token.position + Len(token.value)

\* the tokens are in strictly increasing position order and do not overlap
TokensInOrder(tokens) ==
  \A k \in 1..(Len(tokens) - 1) :
    /\ tokens[k].position < tokens[k + 1].position
    /\ token_end(tokens[k]) <= tokens[k + 1].position

\* each token is a non-empty piece of the input that starts at its position
TokensAreSubstrings(input_str, tokens) ==
  \A k \in DOMAIN tokens :
    /\ Len(tokens[k].value) >= 1
    /\ tokens[k].position >= 0
    /\ token_end(tokens[k]) <= Len(input_str)
    /\ tokens[k].value = substring(input_str, tokens[k].position, token_end(tokens[k]))

\* every non-whitespace character among the first n belongs to exactly one token
TokensCover(input_str, tokens, n) ==
  \A i \in 0..(n - 1) :
    ~isspace(input_str[i + 1]) =>
      Cardinality({k \in DOMAIN tokens :
                     tokens[k].position <= i /\ i < token_end(tokens[k])}) = 1

\* the tokens are right for the part of the input read so far
TokensRight ==
  call.pc \in {"while", "returned"} =>
    /\ call.position <= Len(call.input_str)
    /\ TokensInOrder(call.tokens)
    /\ TokensAreSubstrings(call.input_str, call.tokens)
    /\ TokensCover(call.input_str, call.tokens, call.position)
    /\ \A k \in DOMAIN call.tokens : token_end(call.tokens[k]) <= call.position
    /\ call.pc = "returned" => call.position = Len(call.input_str)

\* C25: tokenize terminates on every input string, position strictly increases on every
\* iteration of the loop, and the tokens returned are in strictly increasing position
\* order, do not overlap, each has as value the input substring starting at its position,
\* and every non-whitespace character of the input belongs to exactly one token.
C25_TokenizeTerminatesWithRightTokens ==
  /\ []TokensRight
  /\ [][(call.pc = "while" /\ call'.pc = "while") => call'.position > call.position]_vars
  /\ <>(call.pc = "returned")

\* C25 has a case: a returned call with a keyword, an identifier, a number and whitespace
\* between them
C25_Witness ==
  /\ call.pc = "returned"
  /\ call.op = "tokenize"
  /\ \E k \in DOMAIN call.tokens : call.tokens[k].type = "keyword"
  /\ \E k \in DOMAIN call.tokens : call.tokens[k].type = "identifier"
  /\ \E k \in DOMAIN call.tokens : call.tokens[k].type = "number"
  /\ \E i \in DOMAIN call.input_str : isspace(call.input_str[i])
====
